---- MODULE Spec2Model ----
(***************************************************************************)
(* A model of writ's decoding engine (Command.Decode / setDefaults /       *)
(* parseArgs and the option decoders).  Strings are sequences of one-character strings, so   *)
(* that prefix tests, splitting and concatenation are computed as the Go   *)
(* code computes them.  Sequence indices are 1-based: the Go loop index i  *)
(* is modelled by i + 1.                                                   *)
(***************************************************************************)
EXTENDS Integers, Sequences, FiniteSets, TLC

VARIABLES
    pc,          \* "idle" before Decode, "scan" inside parseArgs' loop, "done" after
                 \* return, "panic" after Decode panicked
    root,        \* the Command Decode was called on
    env,         \* the process environment: variable name -> value ("" if unset)
    origArgs,    \* the argument slice the caller passed to Decode
    callerArgs,  \* the elements the caller's slice holds now
    aliased,     \* parseArgs' args is a slice of the caller's backing array
    args,        \* parseArgs' local args (re-assigned by processOption's splices)
    origin,      \* history: for each element of args its 1-based index in origArgs, 0 if synthesized
    i,           \* 1-based scan position
    path,        \* Path: sequence of command ids
    positional,  \* positional arguments
    made,        \* positional was allocated by make (an empty slice never allocated is nil)
    seen,        \* set of option ids already matched in this call
    parseCmd,    \* subcommand matching still enabled
    parseOpt,    \* option matching still enabled
    err,         \* error value returned (NoErr for nil)
    dest,        \* destinations bound to the options' decoders
    entry,       \* history: the destinations when the Decode call was made
    calls,       \* history: decoder invocations, <<option id, argument>>
    log,         \* history: one record per loop iteration
    tree,        \* the Commands and Options as they are now
    built,       \* history: the tree as the caller built it
    target,      \* the receiver of the validate calls made directly
    verdicts,    \* history: the outcome of each validate call made directly
    panicked,    \* the value Decode panicked with (NoPanic for none)
    defaulted,   \* history: the options whose SetDefault the call invoked, in order
    decodes,     \* history: the number of Decode calls made
    threads      \* the Decode calls that goroutines run at the same time

\* the state of a Decode call
decoding == <<pc, root, env, origArgs, callerArgs, aliased, args, origin, i, path,
              positional, made, seen,
              parseCmd, parseOpt, err, dest, entry, calls, log, panicked, defaulted,
              decodes, threads>>

vars == <<decoding, tree, built, target, verdicts>>

\* what Decode is given: unchanged while parseArgs runs
inputs == <<root, env, origArgs, entry, tree, built, target, verdicts, panicked,
            defaulted, decodes, threads>>

----------------------------------------------------------------------------
(* Strings *)

Dash == <<"-">>
DashDash == <<"-", "-">>

\* strings.HasPrefix
HasPrefix(s, p) == Len(s) >= Len(p) /\ SubSeq(s, 1, Len(p)) = p

\* strings.TrimPrefix
TrimPrefix(s, p) == IF HasPrefix(s, p) THEN SubSeq(s, Len(p) + 1, Len(s)) ELSE s

\* index of the first occurrence of character c in s, 0 if none
IndexOf(s, c) ==
    IF \E k \in 1..Len(s) : s[k] = c
    THEN CHOOSE k \in 1..Len(s) : s[k] = c /\ \A j \in 1..(k - 1) : s[j] # c
    ELSE 0

\* index of the last occurrence of character c in s, 0 if none
LastIndexOf(s, c) ==
    IF \E k \in 1..Len(s) : s[k] = c
    THEN CHOOSE k \in 1..Len(s) : s[k] = c /\ \A j \in (k + 1)..Len(s) : s[j] # c
    ELSE 0

\* faulty variant: the split is made at the last "="
SplitEq_atLastEq(s) ==
    LET k == LastIndexOf(s, "=") IN
    IF k = 0 THEN <<s>>
    ELSE <<SubSeq(s, 1, k - 1), SubSeq(s, k + 1, Len(s))>>

\* strings.SplitN(s, "=", 2)
SplitEq(s) ==
    LET k == IndexOf(s, "=") IN
    IF k = 0 THEN <<s>>
    ELSE <<SubSeq(s, 1, k - 1), SubSeq(s, k + 1, Len(s))>>

\* strings.SplitN(s, "", 2): the first character and the rest
SplitFirst(s) ==
    IF Len(s) = 0 THEN <<>>
    ELSE IF Len(s) = 1 THEN <<s>>
    ELSE <<SubSeq(s, 1, 1), SubSeq(s, 2, Len(s))>>

\* append(a[:k], a[k+1:]...) for the 1-based position k: drop element k
RemoveAt(a, k) == SubSeq(a, 1, k - 1) \o SubSeq(a, k + 1, Len(a))

\* insert x so that it becomes element k
InsertAt(a, k, x) == SubSeq(a, 1, k - 1) \o <<x>> \o SubSeq(a, k, Len(a))

----------------------------------------------------------------------------
(* Errors *)

NoErr == [kind |-> "nil", tok |-> <<>>]
Error(kind, tok) == [kind |-> kind, tok |-> tok]

----------------------------------------------------------------------------
(* The Command tree.  Commands and Options are referred to by identifier   *)
(* (the Go code holds pointers).  The tree is the three-level test tree    *)
(* top -> mid -> bottom; top also carries the flag and custom-decoder      *)
(* options of the flag and custom-decoder test specs, and top and mid both *)
(* declare an option x (the "bar" option of Decode's doc comment).  Two    *)
(* more roots are the commands of the default-value and the map and slice  *)
(* test specs, both built by New("test", spec).  The root listdefault is   *)
(* the command of a spec with one field, a []string option s that carries  *)
(* a default tag: parseOptionField wraps the decoder of any option field   *)
(* with a default tag in a defaulter, the slice decoder included.  The root *)
(* basic is the command of the basic field test spec, with its string,     *)
(* int8 and uint8 options.  Three more roots carry default tags that no    *)
(* test spec of the repository has: nested has defaults at three levels of *)
(* a tree (a and b on the root, c on its subcommand one, d on one's        *)
(* subcommand leaf, e on its subcommand two, and an option p without a     *)
(* default between a and b); rejected has an int option whose default 1   *)
(* decodes, one with an env tag whose default x does not, and a third      *)
(* after them; overflowroot has no option and a subcommand sub with an     *)
(* int8 option whose default is 128.                                       *)

NoCommand == "NoCommand"
NoOption == "NoOption"

Commands ==
    [top |->
        [Name |-> <<"t", "o", "p">>,
         Aliases |-> <<>>,
         Options |-> <<"Top", "TopX", "Accumulator", "CustomFlag", "CustomOption">>,
         Subcommands |-> <<"mid">>],
     mid |->
        [Name |-> <<"m", "i", "d">>,
         Aliases |-> << <<"s", "e", "c", "o", "n", "d">>, <<"2", "n", "d">> >>,
         Options |-> <<"Mid", "MidX">>,
         Subcommands |-> <<"bottom">>],
     bottom |->
        [Name |-> <<"b", "o", "t", "t", "o", "m">>,
         Aliases |-> << <<"t", "h", "i", "r", "d">> >>,
         Options |-> <<"Bottom">>,
         Subcommands |-> <<>>],
     defaults |->
        [Name |-> <<"t", "e", "s", "t">>,
         Aliases |-> <<>>,
         Options |-> <<"Default", "EnvDefault", "StackedDefault">>,
         Subcommands |-> <<>>],
     mapslice |->
        [Name |-> <<"t", "e", "s", "t">>,
         Aliases |-> <<>>,
         Options |-> <<"StringSlice", "StringMap">>,
         Subcommands |-> <<>>],
     listdefault |->
        [Name |-> <<"t", "e", "s", "t">>,
         Aliases |-> <<>>,
         Options |-> <<"DefaultSlice">>,
         Subcommands |-> <<>>],
     basic |->
        [Name |-> <<"t", "e", "s", "t">>,
         Aliases |-> <<>>,
         Options |-> <<"Int8", "Uint8", "String">>,
         Subcommands |-> <<>>],
     nested |->
        [Name |-> <<"t", "e", "s", "t">>,
         Aliases |-> <<>>,
         Options |-> <<"NestedA", "NestedP", "NestedB">>,
         Subcommands |-> <<"nestedone", "nestedtwo">>],
     nestedone |->
        [Name |-> <<"o", "n", "e">>,
         Aliases |-> <<>>,
         Options |-> <<"NestedC">>,
         Subcommands |-> <<"nestedleaf">>],
     nestedleaf |->
        [Name |-> <<"l", "e", "a", "f">>,
         Aliases |-> <<>>,
         Options |-> <<"NestedD">>,
         Subcommands |-> <<>>],
     nestedtwo |->
        [Name |-> <<"t", "w", "o">>,
         Aliases |-> <<>>,
         Options |-> <<"NestedE">>,
         Subcommands |-> <<>>],
     rejected |->
        [Name |-> <<"t", "e", "s", "t">>,
         Aliases |-> <<>>,
         Options |-> <<"Accepted", "StackedRejected", "Unreached">>,
         Subcommands |-> <<>>],
     overflowroot |->
        [Name |-> <<"t", "e", "s", "t">>,
         Aliases |-> <<>>,
         Options |-> <<>>,
         Subcommands |-> <<"overflowsub">>],
     overflowsub |->
        [Name |-> <<"s", "u", "b">>,
         Aliases |-> <<>>,
         Options |-> <<"Overflowing">>,
         Subcommands |-> <<>>],
     envstring |->
        [Name |-> <<"t", "e", "s", "t">>,
         Aliases |-> <<>>,
         Options |-> <<"EnvString", "StackedString">>,
         Subcommands |-> <<>>]]

Options ==
    [Top |->
        [Names |-> << <<"t">>, <<"t", "o", "p", "v", "a", "l">> >>,
         Flag |-> FALSE, Plural |-> FALSE, Decoder |-> "int"],
     TopX |->
        [Names |-> << <<"x">> >>,
         Flag |-> FALSE, Plural |-> FALSE, Decoder |-> "int"],
     Accumulator |->
        [Names |-> << <<"a">>, <<"a", "c", "c">> >>,
         Flag |-> TRUE, Plural |-> TRUE, Decoder |-> "flagAccumulator"],
     CustomFlag |->
        [Names |-> << <<"f">>, <<"f", "l", "a", "g">> >>,
         Flag |-> TRUE, Plural |-> FALSE, Decoder |-> "customTestFlag"],
     CustomOption |->
        [Names |-> << <<"o">>, <<"o", "p", "t">> >>,
         Flag |-> FALSE, Plural |-> FALSE, Decoder |-> "customTestOption"],
     Mid |->
        [Names |-> << <<"m">>, <<"m", "i", "d", "v", "a", "l">> >>,
         Flag |-> FALSE, Plural |-> FALSE, Decoder |-> "int"],
     MidX |->
        [Names |-> << <<"x">> >>,
         Flag |-> FALSE, Plural |-> FALSE, Decoder |-> "int"],
     Bottom |->
        [Names |-> << <<"b">>, <<"b", "o", "t", "t", "o", "m", "v", "a", "l">> >>,
         Flag |-> FALSE, Plural |-> FALSE, Decoder |-> "int"],
     Default |->
        [Names |-> << <<"d">> >>,
         Flag |-> FALSE, Plural |-> FALSE, Decoder |-> "int"],
     EnvDefault |->
        [Names |-> << <<"e">> >>,
         Flag |-> FALSE, Plural |-> FALSE, Decoder |-> "int"],
     StackedDefault |->
        [Names |-> << <<"s">> >>,
         Flag |-> FALSE, Plural |-> FALSE, Decoder |-> "int"],
     StringSlice |->
        [Names |-> << <<"s">> >>,
         Flag |-> FALSE, Plural |-> TRUE, Decoder |-> "stringSlice"],
     StringMap |->
        [Names |-> << <<"m">> >>,
         Flag |-> FALSE, Plural |-> TRUE, Decoder |-> "stringMap"],
     DefaultSlice |->
        [Names |-> << <<"s">> >>,
         Flag |-> FALSE, Plural |-> TRUE, Decoder |-> "stringSlice"],
     Int8 |->
        [Names |-> << <<"i", "n", "t", "8">> >>,
         Flag |-> FALSE, Plural |-> FALSE, Decoder |-> "int8"],
     Uint8 |->
        [Names |-> << <<"u", "i", "n", "t", "8">> >>,
         Flag |-> FALSE, Plural |-> FALSE, Decoder |-> "uint8"],
     String |->
        [Names |-> << <<"s", "t", "r", "i", "n", "g">> >>,
         Flag |-> FALSE, Plural |-> FALSE, Decoder |-> "string"],
     NestedA |->
        [Names |-> << <<"a">> >>, Flag |-> FALSE, Plural |-> FALSE, Decoder |-> "int"],
     NestedP |->
        [Names |-> << <<"p">> >>, Flag |-> FALSE, Plural |-> FALSE, Decoder |-> "int"],
     NestedB |->
        [Names |-> << <<"b">> >>, Flag |-> FALSE, Plural |-> FALSE, Decoder |-> "int"],
     NestedC |->
        [Names |-> << <<"c">> >>, Flag |-> FALSE, Plural |-> FALSE, Decoder |-> "int"],
     NestedD |->
        [Names |-> << <<"d">> >>, Flag |-> FALSE, Plural |-> FALSE, Decoder |-> "int"],
     NestedE |->
        [Names |-> << <<"e">> >>, Flag |-> FALSE, Plural |-> FALSE, Decoder |-> "int"],
     Accepted |->
        [Names |-> << <<"a">> >>, Flag |-> FALSE, Plural |-> FALSE, Decoder |-> "int"],
     StackedRejected |->
        [Names |-> << <<"s">> >>, Flag |-> FALSE, Plural |-> FALSE, Decoder |-> "int"],
     Unreached |->
        [Names |-> << <<"u">> >>, Flag |-> FALSE, Plural |-> FALSE, Decoder |-> "int"],
     Overflowing |->
        [Names |-> << <<"i", "n", "t", "8">> >>,
         Flag |-> FALSE, Plural |-> FALSE, Decoder |-> "int8"],
     EnvString |->
        [Names |-> << <<"e">> >>, Flag |-> FALSE, Plural |-> FALSE, Decoder |-> "string"],
     StackedString |->
        [Names |-> << <<"s">> >>, Flag |-> FALSE, Plural |-> FALSE, Decoder |-> "string"]]

\* the default tag of an option field: the argument of its defaulter
DefaultArgs ==
    [Default |-> <<"4", "2">>, StackedDefault |-> <<"8", "4">>,
     DefaultSlice |-> <<"x">>,
     NestedA |-> <<"1">>, NestedB |-> <<"2">>, NestedC |-> <<"3">>,
     NestedD |-> <<"4">>, NestedE |-> <<"5">>,
     Accepted |-> <<"1">>, StackedRejected |-> <<"x">>, Unreached |-> <<"3">>,
     Overflowing |-> <<"1", "2", "8">>, StackedString |-> <<"f", "o", "o">>]

\* the env tag of an option field: the key of its envDefaulter
EnvKeys ==
    [EnvDefault |-> "ENV_DEFAULT", StackedDefault |-> "STACKED_DEFAULT",
     NestedB |-> "ENV_DEFAULT", StackedRejected |-> "STACKED_DEFAULT",
     EnvString |-> "ENV_DEFAULT", StackedString |-> "STACKED_DEFAULT"]

EnvNames == {"ENV_DEFAULT", "STACKED_DEFAULT"}

\* a variable of the process environment: absent, or present with a value
\* that may be the empty string
Unset == [set |-> FALSE, value |-> <<>>]
SetTo(v) == [set |-> TRUE, value |-> v]

\* os.Getenv: the value of the variable, "" when it is not present
Getenv(e, key) == IF e[key].set THEN e[key].value ELSE <<>>

\* no variable set
EmptyEnv == [k \in EnvNames |-> Unset]

OptionIds == DOMAIN Options
CommandIds == DOMAIN Commands

\* the destinations as New leaves them: the zero value of every field
ZeroDest ==
    [Top |-> 0, TopX |-> 0, Accumulator |-> 0, CustomFlag |-> FALSE,
     CustomOption |-> <<>>, Mid |-> 0, MidX |-> 0, Bottom |-> 0,
     Default |-> 0, EnvDefault |-> 0, StackedDefault |-> 0,
     StringSlice |-> <<>>, StringMap |-> <<>>, DefaultSlice |-> <<>>,
     Int8 |-> 0, Uint8 |-> 0, String |-> <<>>,
     NestedA |-> 0, NestedP |-> 0, NestedB |-> 0, NestedC |-> 0, NestedD |-> 0,
     NestedE |-> 0, Accepted |-> 0, StackedRejected |-> 0, Unreached |-> 0,
     Overflowing |-> 0, EnvString |-> <<>>, StackedString |-> <<>>]

\* elements of a sequence
Range(q) == {q[k] : k \in 1..Len(q)}

\* faulty variant: a subcommand is found by its Name only
Subcommand_nameOnly(c, name) ==
    LET subs == Commands[c].Subcommands
        hit(k) == Commands[subs[k]].Name = name
    IN  IF \E k \in 1..Len(subs) : hit(k)
        THEN subs[CHOOSE k \in 1..Len(subs) : hit(k) /\ \A j \in 1..(k - 1) : ~hit(j)]
        ELSE NoCommand

\* Command.Subcommand: the first subcommand of c whose name or alias is name
Subcommand(c, name) ==
    LET subs == Commands[c].Subcommands
        hit(k) == Commands[subs[k]].Name = name
                  \/ name \in Range(Commands[subs[k]].Aliases)
    IN  IF \E k \in 1..Len(subs) : hit(k)
        THEN subs[CHOOSE k \in 1..Len(subs) : hit(k) /\ \A j \in 1..(k - 1) : ~hit(j)]
        ELSE NoCommand

\* Command.Option: the first option of c that has the name; c's own options only
CommandOption(c, name) ==
    LET opts == Commands[c].Options
        hit(k) == name \in Range(Options[opts[k]].Names)
    IN  IF \E k \in 1..Len(opts) : hit(k)
        THEN opts[CHOOSE k \in 1..Len(opts) : hit(k) /\ \A j \in 1..(k - 1) : ~hit(j)]
        ELSE NoOption

\* Path.Last
Last(p) == p[Len(p)]

\* faulty variant: the search runs from the root to the last command
findOption_rootFirst(p, name) ==
    LET hit(k) == CommandOption(p[k], name) # NoOption IN
    IF \E k \in 1..Len(p) : hit(k)
    THEN CommandOption(p[CHOOSE k \in 1..Len(p) : hit(k) /\ \A j \in 1..(k - 1) : ~hit(j)], name)
    ELSE NoOption

\* faulty variant: the search goes on into the subcommands not yet entered
findOption_wholeTree(p, name) ==
    LET all == p \o <<"top", "mid", "bottom">>
        hit(k) == CommandOption(all[k], name) # NoOption
    IN  IF \E k \in 1..Len(all) : hit(k)
        THEN CommandOption(all[CHOOSE k \in 1..Len(all) : hit(k) /\ \A j \in 1..(k - 1) : ~hit(j)], name)
        ELSE NoOption

\* Path.findOption: the named option on the nearest ancestor command
findOption(p, name) ==
    LET hit(k) == CommandOption(p[k], name) # NoOption IN
    IF \E k \in 1..Len(p) : hit(k)
    THEN CommandOption(p[CHOOSE k \in 1..Len(p) : hit(k) /\ \A j \in (k + 1)..Len(p) : ~hit(j)], name)
    ELSE NoOption

----------------------------------------------------------------------------
(* Validation.  A tree handed to validate is a record of its Commands, its *)
(* Options and the backing arrays of the Aliases slices; a slice is an     *)
(* array, an offset and a length.  A panic is the value panicCommand or    *)
(* panicOption raises: the error type, the message and the name it is      *)
(* about.                                                                  *)

NoPanic == [type |-> "none", msg |-> "", arg |-> <<>>]
panicOption(msg, arg) == [type |-> "optionError", msg |-> msg, arg |-> arg]
panicCommand(msg, arg) == [type |-> "commandError", msg |-> msg, arg |-> arg]

\* an Option without Decoder
NoDecoder == "nil"

\* runes unicode.IsSpace holds for
Whitespace == {" ", "\t", "\n"}
IsSpace(r) == r \in Whitespace

\* faulty variant: only a leading space is found
HasSpace_leadingOnly(s) == Len(s) > 0 /\ IsSpace(s[1])

\* for _, r := range []rune(name) { if unicode.IsSpace(r) ... }
HasSpace(s) == \E k \in 1..Len(s) : IsSpace(s[k])

Min(S) == CHOOSE x \in S : \A y \in S : x <= y

\* the first panic of a sequence of outcomes, NoPanic if there is none
FirstPanic(q) ==
    LET raised == {k \in 1..Len(q) : q[k] # NoPanic}
    IN  IF raised = {} THEN NoPanic ELSE q[Min(raised)]

\* the body of Option.validate's loop over o.Names
optionNamePanic(name) ==
    IF name = <<>> THEN panicOption("Option names cannot be blank", name)
    ELSE IF HasPrefix(name, Dash)
    THEN panicOption("Option names cannot begin with '-'", name)
    ELSE IF HasSpace(name) THEN panicOption("Option names cannot have spaces", name)
    ELSE NoPanic

\* Option.ShortNames and Option.LongNames: the names of one rune, and of more
ShortNames(o) == SelectSeq(o.Names, LAMBDA n : Len(n) = 1)
LongNames(o) == SelectSeq(o.Names, LAMBDA n : Len(n) > 1)

\* strings.Join
RECURSIVE Join(_, _)
Join(q, sep) ==
    IF q = <<>> THEN <<>>
    ELSE IF Len(q) = 1 THEN q[1]
    ELSE q[1] \o sep \o Join(Tail(q), sep)

\* Option.String: "-s" for each short name, then "--long" for each long one
Option_String(o) ==
    Join([k \in 1..Len(ShortNames(o)) |-> Dash \o ShortNames(o)[k]]
            \o [k \in 1..Len(LongNames(o)) |-> DashDash \o LongNames(o)[k]],
         <<"/">>)

\* Option.validate
Option_validate(o) ==
    IF Len(o.Names) = 0 THEN panicOption("Options require at least one name", <<>>)
    ELSE IF FirstPanic([k \in 1..Len(o.Names) |-> optionNamePanic(o.Names[k])]) # NoPanic
    THEN FirstPanic([k \in 1..Len(o.Names) |-> optionNamePanic(o.Names[k])])
    ELSE IF o.Decoder = NoDecoder
    THEN panicOption("Option decoder cannot be nil", Option_String(o))
    ELSE NoPanic

\* Command.validate's checks of c.Name
commandNamePanic(name) ==
    IF name = <<>> THEN panicCommand("Command name cannot be empty", name)
    ELSE IF HasPrefix(name, Dash)
    THEN panicCommand("Command names cannot begin with '-'", name)
    ELSE IF HasSpace(name) THEN panicCommand("Command names cannot have spaces", name)
    ELSE NoPanic

\* the body of Command.validate's loop over c.Aliases
aliasPanic(a) ==
    IF HasPrefix(a, Dash) THEN panicCommand("Command aliases cannot begin with '-'", a)
    ELSE IF HasSpace(a) THEN panicCommand("Command aliases cannot have spaces", a)
    ELSE NoPanic

\* the nil slice, and the array it is taken to lie in
NoArray == "NoArray"
NilSlice == [arr |-> NoArray, off |-> 0, len |-> 0]

\* the elements and the capacity of a slice
SliceElems(arrays, sl) == [k \in 1..sl.len |-> arrays[sl.arr][sl.off + k]]
SliceCap(arrays, sl) == Len(arrays[sl.arr]) - sl.off

\* append(sl, x): the elements of the result, and the arrays afterwards.
\* Within the capacity x is written to the array of sl; beyond it the result
\* is a new array, which the tree does not hold.
append(arrays, sl, x) ==
    [elems |-> Append(SliceElems(arrays, sl), x),
     arrays |-> IF sl.len < SliceCap(arrays, sl)
                THEN [arrays EXCEPT ![sl.arr][sl.off + sl.len + 1] = x]
                ELSE arrays]

\* the first index of names whose element is present in the seen map when
\* the loop over names reaches it, 0 if there is none
FirstSeen(names, known) ==
    LET present == {k \in 1..Len(names) :
                       names[k] \in known \/ \E j \in 1..(k - 1) : names[j] = names[k]}
    IN  IF present = {} THEN 0 ELSE Min(present)

\* faulty variant: one seen map for the whole tree
optionsSeen_global(t, c) ==
    UNION {Range(t.opts[o].Names) : o \in DOMAIN t.opts \ Range(t.cmds[c].Options)}

\* seen = make(map[string]bool) before the loop over c.Options
optionsSeen(t, c) == {}

\* the loop over c.Options from its k-th option on: o.validate(), then the
\* names of o against seen
RECURSIVE validateOptions(_, _, _, _)
validateOptions(t, opts, k, known) ==
    IF k > Len(opts) THEN NoPanic
    ELSE IF Option_validate(t.opts[opts[k]]) # NoPanic
    THEN Option_validate(t.opts[opts[k]])
    ELSE IF FirstSeen(t.opts[opts[k]].Names, known) # 0
    THEN panicCommand("option names must be unique",
                      t.opts[opts[k]].Names[FirstSeen(t.opts[opts[k]].Names, known)])
    ELSE validateOptions(t, opts, k + 1, known \cup Range(t.opts[opts[k]].Names))

\* the outcome of a validate call: the panic raised and the tree afterwards
Validated(p, t) == [panic |-> p, tree |-> t]

RECURSIVE validate(_, _)
RECURSIVE validateSubcommands(_, _, _, _)

\* the loop body after sub.validate() returned r: subnames :=
\* append(sub.Aliases, sub.Name), then the names of subnames against seen
checkSubnames(r, subs, k, known, a) ==
    IF FirstSeen(a.elems, known) # 0
    THEN Validated(panicCommand("command names must be unique",
                                a.elems[FirstSeen(a.elems, known)]),
                   [r.tree EXCEPT !.arrays = a.arrays])
    ELSE validateSubcommands([r.tree EXCEPT !.arrays = a.arrays], subs, k + 1,
                             known \cup Range(a.elems))

\* the rest of the loop body once sub.validate() gave r
afterSubValidate(r, subs, k, known) ==
    IF r.panic # NoPanic THEN r
    ELSE checkSubnames(r, subs, k, known,
                       append(r.tree.arrays, r.tree.cmds[subs[k]].Aliases,
                              r.tree.cmds[subs[k]].Name))

\* the loop over c.Subcommands from its k-th subcommand on
validateSubcommands(t, subs, k, known) ==
    IF k > Len(subs) THEN Validated(NoPanic, t)
    ELSE afterSubValidate(validate(t, subs[k]), subs, k, known)

\* Command.validate once the loop over the subcommands gave r
afterSubcommands(r, c) ==
    IF r.panic # NoPanic THEN r
    ELSE Validated(validateOptions(r.tree, r.tree.cmds[c].Options, 1, optionsSeen(r.tree, c)),
                   r.tree)

\* faulty variant: the subcommands are not validated
validate_ownOnly(t, c) ==
    IF commandNamePanic(t.cmds[c].Name) # NoPanic
    THEN Validated(commandNamePanic(t.cmds[c].Name), t)
    ELSE Validated(validateOptions(t, t.cmds[c].Options, 1, {}), t)

\* Command.validate on the command c of the tree t
validate(t, c) ==
    IF commandNamePanic(t.cmds[c].Name) # NoPanic
    THEN Validated(commandNamePanic(t.cmds[c].Name), t)
    ELSE IF FirstPanic([k \in 1..t.cmds[c].Aliases.len |->
                           aliasPanic(SliceElems(t.arrays, t.cmds[c].Aliases)[k])]) # NoPanic
    THEN Validated(FirstPanic([k \in 1..t.cmds[c].Aliases.len |->
                                  aliasPanic(SliceElems(t.arrays, t.cmds[c].Aliases)[k])]), t)
    ELSE afterSubcommands(validateSubcommands(t, t.cmds[c].Subcommands, 1, {}), c)

\* the fixture as New builds it: parseCommaNames gives every Command an
\* Aliases slice with an array of its own, of exactly its length
FixtureTree ==
    [cmds |-> [c \in CommandIds |->
                 [Name |-> Commands[c].Name,
                  Aliases |-> [arr |-> c, off |-> 0, len |-> Len(Commands[c].Aliases)],
                  Options |-> Commands[c].Options,
                  Subcommands |-> Commands[c].Subcommands]],
     opts |-> [o \in OptionIds |->
                 [Names |-> Options[o].Names, Decoder |-> Options[o].Decoder]],
     arrays |-> [c \in CommandIds \cup {NoArray} |->
                   IF c = NoArray THEN <<>> ELSE Commands[c].Aliases]]

\* a tree built directly, in the manner of the invalid spec tests: the
\* subcommands foo (alias a) and b (alias c) of test, and under foo a
\* subcommand that reuses the name b and the alias a; the option names o and
\* f are used again one level down
SampleTree ==
    [cmds |->
        [test |-> [Name |-> <<"t", "e", "s", "t">>,
                   Aliases |-> [arr |-> "test", off |-> 0, len |-> 0],
                   Options |-> <<"option", "flag">>,
                   Subcommands |-> <<"foo", "b">>],
         foo |-> [Name |-> <<"f", "o", "o">>,
                  Aliases |-> [arr |-> "foo", off |-> 0, len |-> 1],
                  Options |-> <<"suboption">>,
                  Subcommands |-> <<"leaf">>],
         b |-> [Name |-> <<"b">>,
                Aliases |-> [arr |-> "b", off |-> 0, len |-> 1],
                Options |-> <<>>,
                Subcommands |-> <<>>],
         leaf |-> [Name |-> <<"b">>,
                   Aliases |-> [arr |-> "leaf", off |-> 0, len |-> 1],
                   Options |-> <<"leafflag">>,
                   Subcommands |-> <<>>]],
     opts |->
        [option |-> [Names |-> << <<"o">>, <<"o", "p", "t">> >>, Decoder |-> "int"],
         flag |-> [Names |-> << <<"f">> >>, Decoder |-> "customTestFlag"],
         suboption |-> [Names |-> << <<"o">> >>, Decoder |-> "int"],
         leafflag |-> [Names |-> << <<"f">> >>, Decoder |-> "customTestFlag"]],
     arrays |->
        [test |-> <<>>,
         foo |-> << <<"a">> >>,
         b |-> << <<"c">> >>,
         leaf |-> << <<"a">> >>,
         NoArray |-> <<>>]]

\* what the caller of a directly built tree may write into it
SetName(t, c, name) == [t EXCEPT !.cmds[c].Name = name]

\* c.Aliases = []string{...}: a new array of exactly the length
SetAliases(t, c, q) ==
    [t EXCEPT !.arrays[c] = q,
              !.cmds[c].Aliases = [arr |-> c, off |-> 0, len |-> Len(q)]]

SetNames(t, o, q) == [t EXCEPT !.opts[o].Names = q]
SetDecoder(t, o, d) == [t EXCEPT !.opts[o].Decoder = d]

\* c.Aliases = make([]string, 1, 2) with the alias a stored: one element
\* of spare capacity
SpareCapacity(t, c) ==
    [t EXCEPT !.arrays[c] = << <<"a">>, <<>> >>,
              !.cmds[c].Aliases = [arr |-> c, off |-> 0, len |-> 1]]

\* all := []string{x, y}; c.Aliases = all[:1]; d.Aliases = all[1:]
SharedArray(t, c, d, x, y) ==
    [t EXCEPT !.arrays[c] = <<x, y>>,
              !.cmds[c].Aliases = [arr |-> c, off |-> 0, len |-> 1],
              !.cmds[d].Aliases = [arr |-> c, off |-> 1, len |-> 1]]

\* names and name lists written into a tree
NameValues ==
    { <<>>, Dash, <<"-", "a">>, <<" ", "a">>, <<"a", " ">>, <<"a", "\t", "b">>,
      <<"a", "-">>, <<"a">>, <<"b">>, <<"o">>, <<"z">> }

NameLists ==
    { <<>> } \cup { <<n>> : n \in NameValues }
        \cup { << <<"z">>, <<"z">> >>, << <<"y">>, <<"z">> >>, << <<"z">>, <<"f">> >>,
               << <<"z">>, <<"-", "a">> >>, << <<"f", "o", "o">> >> }

\* one write of the caller
Edits ==
    { [field |-> "Name", id |-> c, val |-> n] :
         c \in DOMAIN SampleTree.cmds, n \in NameValues }
        \cup { [field |-> "Aliases", id |-> c, val |-> q] :
                  c \in DOMAIN SampleTree.cmds, q \in NameLists }
        \cup { [field |-> "Names", id |-> o, val |-> q] :
                  o \in DOMAIN SampleTree.opts, q \in NameLists }
        \cup { [field |-> "Decoder", id |-> o, val |-> d] :
                  o \in DOMAIN SampleTree.opts, d \in {NoDecoder, "int"} }
        \cup { [field |-> "Spare", id |-> c, val |-> <<>>] : c \in {"foo", "leaf"} }
        \cup { [field |-> "Shared", id |-> "foo", val |-> d] : d \in {"b", "leaf"} }

EditTree(t, e) ==
    CASE e.field = "Name" -> SetName(t, e.id, e.val)
      [] e.field = "Aliases" -> SetAliases(t, e.id, e.val)
      [] e.field = "Names" -> SetNames(t, e.id, e.val)
      [] e.field = "Decoder" -> SetDecoder(t, e.id, e.val)
      [] e.field = "Spare" -> SpareCapacity(t, e.id)
      [] e.field = "Shared" -> SharedArray(t, e.id, e.val, <<"a">>, <<"c">>)

\* the trees validated: SampleTree as it is and after one write
SampleTrees == {SampleTree} \cup {EditTree(SampleTree, e) : e \in Edits}

\* the receiver of a validate call: a Command or an Option of the tree
Receivers ==
    { [kind |-> "Command", id |-> c] : c \in DOMAIN SampleTree.cmds }
        \cup { [kind |-> "Option", id |-> o] : o \in DOMAIN SampleTree.opts }

MaxValidations == 2    \* most validate calls on one receiver

----------------------------------------------------------------------------
(* Decoders *)

Digits == <<"0", "1", "2", "3", "4", "5", "6", "7", "8", "9">>
IsDigit(c) == \E d \in 1..10 : Digits[d] = c
DigitVal(c) == (CHOOSE d \in 1..10 : Digits[d] = c) - 1

RECURSIVE DigitsVal(_)
DigitsVal(s) ==
    IF Len(s) = 0 THEN 0
    ELSE 10 * DigitsVal(SubSeq(s, 1, Len(s) - 1)) + DigitVal(s[Len(s)])

\* strconv.ParseInt(arg, 10, 64): an optional sign, then one or more decimal
\* digits.  The numerals of the model are far below 2^63, so the range error
\* of ParseInt and OverflowInt on an int destination cannot arise.
ParseInt(arg) ==
    LET signed == Len(arg) > 0 /\ arg[1] \in {"+", "-"}
        body == IF signed THEN SubSeq(arg, 2, Len(arg)) ELSE arg
        ok == Len(body) > 0 /\ \A k \in 1..Len(body) : IsDigit(body[k])
    IN  [ok |-> ok,
         val |-> IF ~ok THEN 0
                 ELSE IF signed /\ arg[1] = "-" THEN 0 - DigitsVal(body)
                 ELSE DigitsVal(body)]

\* decodeInt through basicDecoder.Decode
decodeInt(cur, arg) ==
    LET r == ParseInt(arg) IN
    IF r.ok THEN [err |-> NoErr, val |-> r.val]
    ELSE [err |-> Error("invalid syntax", arg), val |-> cur]

\* strconv.ParseUint(arg, 10, 64): one or more decimal digits, no sign
ParseUint(arg) ==
    LET ok == Len(arg) > 0 /\ \A k \in 1..Len(arg) : IsDigit(arg[k])
    IN  [ok |-> ok, val |-> IF ok THEN DigitsVal(arg) ELSE 0]

\* the width of an 8-bit destination (reflect.Int8, reflect.Uint8)
Bits8 == 8

RECURSIVE Pow2(_)
Pow2(n) == IF n = 0 THEN 1 ELSE 2 * Pow2(n - 1)

\* reflect.Value.OverflowInt for a destination of the given width
OverflowInt(bits, v) == v < 0 - Pow2(bits - 1) \/ v > Pow2(bits - 1) - 1

\* reflect.Value.OverflowUint for a destination of the given width
OverflowUint(bits, v) == v > Pow2(bits) - 1

\* faulty variant: the conversion to int8 without the overflow check, which
\* wraps modulo 2^8
decodeInt8_wraps(cur, arg) ==
    LET r == ParseInt(arg) IN
    IF r.ok
    THEN [err |-> NoErr,
          val |-> ((r.val + Pow2(Bits8 - 1)) % Pow2(Bits8)) - Pow2(Bits8 - 1)]
    ELSE [err |-> Error("invalid syntax", arg), val |-> cur]

\* decodeInt on an int8 destination
decodeInt8(cur, arg) ==
    LET r == ParseInt(arg) IN
    IF ~r.ok THEN [err |-> Error("invalid syntax", arg), val |-> cur]
    ELSE IF OverflowInt(Bits8, r.val)
    THEN [err |-> Error("would overflow", arg), val |-> cur]
    ELSE [err |-> NoErr, val |-> r.val]

\* decodeUint on a uint8 destination
decodeUint8(cur, arg) ==
    LET r == ParseUint(arg) IN
    IF ~r.ok THEN [err |-> Error("invalid syntax", arg), val |-> cur]
    ELSE IF OverflowUint(Bits8, r.val)
    THEN [err |-> Error("would overflow", arg), val |-> cur]
    ELSE [err |-> NoErr, val |-> r.val]

\* decodeString
decodeString(cur, arg) == [err |-> NoErr, val |-> arg]

\* flagAccumulator.Decode
flagAccumulatorDecode(cur, arg) == [err |-> NoErr, val |-> cur + 1]

\* customTestFlag.Decode
customTestFlagDecode(cur, arg) == [err |-> NoErr, val |-> TRUE]

\* customTestOption.Decode
customTestOptionDecode(cur, arg) ==
    IF HasPrefix(arg, <<"f", "o", "o">>)
    THEN [err |-> NoErr, val |-> arg]
    ELSE [err |-> Error("customTestOption values must begin with foo", <<>>), val |-> cur]

\* faulty variant: the slice is overwritten by the argument
stringSliceDecode_overwrites(cur, arg) == [err |-> NoErr, val |-> <<arg>>]

\* stringSliceDecoder.Decode: append, on a nil slice too
stringSliceDecode(cur, arg) == [err |-> NoErr, val |-> Append(cur, arg)]

\* faulty variant: the argument is split at its last '='
stringMapDecode_atLastEq(cur, arg) ==
    LET keyval == SplitEq_atLastEq(arg) IN
    IF Len(keyval) # 2
    THEN [err |-> Error("is not in key=value format", arg), val |-> cur]
    ELSE [err |-> NoErr,
          val |-> [k \in DOMAIN cur \cup {keyval[1]} |->
                      IF k = keyval[1] THEN keyval[2] ELSE cur[k]]]

\* stringMapDecoder.Decode: a map is a function from keys to values, the nil
\* map the function with no key
stringMapDecode(cur, arg) ==
    LET keyval == SplitEq(arg) IN
    IF Len(keyval) # 2
    THEN [err |-> Error("is not in key=value format", arg), val |-> cur]
    ELSE [err |-> NoErr,
          val |-> [k \in DOMAIN cur \cup {keyval[1]} |->
                      IF k = keyval[1] THEN keyval[2] ELSE cur[k]]]

\* opt.Decoder.Decode(arg) against the destinations d: the error, the new
\* destinations and the invocation appended to the history c
DecoderDecode(opt, arg, d, c) ==
    LET kind == Options[opt].Decoder
        r == CASE kind = "int" -> decodeInt(d[opt], arg)
               [] kind = "flagAccumulator" -> flagAccumulatorDecode(d[opt], arg)
               [] kind = "customTestFlag" -> customTestFlagDecode(d[opt], arg)
               [] kind = "customTestOption" -> customTestOptionDecode(d[opt], arg)
               [] kind = "stringSlice" -> stringSliceDecode(d[opt], arg)
               [] kind = "stringMap" -> stringMapDecode(d[opt], arg)
               [] kind = "int8" -> decodeInt8(d[opt], arg)
               [] kind = "uint8" -> decodeUint8(d[opt], arg)
               [] kind = "string" -> decodeString(d[opt], arg)
    IN  [err |-> r.err,
         dest |-> [d EXCEPT ![opt] = r.val],
         calls |-> Append(c, <<opt, arg>>)]

----------------------------------------------------------------------------
(* Defaults.  An option field with a default tag has its decoder wrapped   *)
(* in a defaulter, one with an env tag in an envDefaulter around that.     *)
(* SetDefault calls the wrapped decoder directly; these calls are not part *)
(* of the history of invocations made while args are parsed.  setDefaults  *)
(* is followed through a record st: the destinations, the options whose    *)
(* SetDefault was invoked so far, in order, and the panic raised, if any.  *)

DefaultRejected == "error setting default value: decoder rejected arg"

DefaultsState(d, q, p) == [dest |-> d, defaulted |-> q, panic |-> p]

\* faulty variant: a rejected default is passed over
defaulterApplied_ignoresError(opt, st, r) == [st EXCEPT !.dest = r.dest]

\* defaulter.SetDefault once Decode(defaultArg) returned r: panic if err != nil
defaulterApplied(opt, st, r) ==
    IF r.err # NoErr
    THEN [st EXCEPT !.dest = r.dest,
                    !.panic = panicOption(DefaultRejected, DefaultArgs[opt])]
    ELSE [st EXCEPT !.dest = r.dest]

\* defaulter.SetDefault: Decode(defaultArg)
defaulterSetDefault(opt, st) ==
    defaulterApplied(opt, st, DecoderDecode(opt, DefaultArgs[opt], st.dest, <<>>))

\* envDefaulter.SetDefault after the environment value was skipped or
\* rejected: the wrapped decoder's SetDefault, if it is an OptionDefaulter
envFallback(opt, st) ==
    IF opt \in DOMAIN DefaultArgs THEN defaulterSetDefault(opt, st) ELSE st

\* faulty variant: the static default is applied over a decoded environment value
envDecoded_thenStatic(opt, st, r) == envFallback(opt, [st EXCEPT !.dest = r.dest])

\* envDefaulter.SetDefault once Decode(val) returned r: return if err == nil
envDecoded(opt, st, r) ==
    IF r.err = NoErr THEN [st EXCEPT !.dest = r.dest]
    ELSE envFallback(opt, [st EXCEPT !.dest = r.dest])

\* faulty variant: the value of a variable that is present is decoded, empty
\* or not
envDefaulterSetDefault_decodesEmpty(opt, st, e) ==
    IF e[EnvKeys[opt]].set
    THEN envDecoded(opt, st, DecoderDecode(opt, Getenv(e, EnvKeys[opt]), st.dest, <<>>))
    ELSE envFallback(opt, st)

\* envDefaulter.SetDefault: val := os.Getenv(key); Decode(val) if val != ""
envDefaulterSetDefault(opt, st, e) ==
    IF Getenv(e, EnvKeys[opt]) # <<>>
    THEN envDecoded(opt, st, DecoderDecode(opt, Getenv(e, EnvKeys[opt]), st.dest, <<>>))
    ELSE envFallback(opt, st)

\* defaulter, ok := opt.Decoder.(OptionDefaulter); if ok { defaulter.SetDefault() }
SetDefault(opt, st, e) ==
    IF opt \in DOMAIN EnvKeys
    THEN envDefaulterSetDefault(opt, [st EXCEPT !.defaulted = Append(@, opt)], e)
    ELSE IF opt \in DOMAIN DefaultArgs
    THEN defaulterSetDefault(opt, [st EXCEPT !.defaulted = Append(@, opt)])
    ELSE st

RECURSIVE setDefaultsOptions(_, _, _)
\* the loop over c.Options; a panic ends it
setDefaultsOptions(opts, st, e) ==
    IF opts = <<>> \/ st.panic # NoPanic THEN st
    ELSE setDefaultsOptions(Tail(opts), SetDefault(Head(opts), st, e), e)

\* faulty variant: the options of all subcommands of a command before the
\* subcommands of any of them
RECURSIVE setDefaultsEach_levelOrder(_, _, _)
setDefaultsEach_levelOrder(cmds, st, e) ==
    IF cmds = <<>> \/ st.panic # NoPanic THEN st
    ELSE setDefaultsEach_levelOrder(Tail(cmds) \o Commands[Head(cmds)].Subcommands,
                                    setDefaultsOptions(Commands[Head(cmds)].Options, st, e),
                                    e)

\* setDefaults on each command of the sequence cmds in turn: the options of
\* the first, then its subcommands (sub.setDefaults()), then the rest
RECURSIVE setDefaultsEach(_, _, _)
setDefaultsEach(cmds, st, e) ==
    IF cmds = <<>> \/ st.panic # NoPanic THEN st
    ELSE setDefaultsEach(Commands[Head(cmds)].Subcommands \o Tail(cmds),
                         setDefaultsOptions(Commands[Head(cmds)].Options, st, e), e)

\* Command.setDefaults, started with the destinations d
setDefaults(c, d, e) == setDefaultsEach(<<c>>, DefaultsState(d, <<>>, NoPanic), e)

----------------------------------------------------------------------------
(* Argument parsing.  processOption and its two branches take the path,    *)
(* the args, the 1-based index of the option token and the parts of the    *)
(* state a decoder touches (d: destinations, c: invocation history, og:    *)
(* the origin of each element of args), and return the matched option, the *)
(* new args and the error.                                                 *)

ProcessResult(opt, newargs, og, e, d, c) ==
    [opt |-> opt, args |-> newargs, origin |-> og, err |-> e, dest |-> d, calls |-> c]

\* the result of a branch that invoked the decoder: r is what Decode returned
Decoded(opt, newargs, og, r) == ProcessResult(opt, newargs, og, r.err, r.dest, r.calls)

\* faulty variant: a flag decodes although the token carries an inline argument
processLongOption_flagIgnoresInline(p, a, optidx, og, d, c) ==
    LET keyval == SplitEq(TrimPrefix(a[optidx], DashDash))
        name == keyval[1]
        opt == findOption(p, name)
    IN  IF opt = NoOption
        THEN ProcessResult(opt, a, og, Error("is not recognized", DashDash \o name), d, c)
        ELSE IF Options[opt].Flag
        THEN Decoded(opt, a, og, DecoderDecode(opt, <<>>, d, c))
        ELSE IF Len(keyval) = 2
        THEN Decoded(opt, a, og, DecoderDecode(opt, keyval[2], d, c))
        ELSE IF Len(a) - optidx + 1 < 2
        THEN ProcessResult(opt, a, og,
                           Error("requires an argument", DashDash \o name), d, c)
        ELSE Decoded(opt, RemoveAt(a, optidx + 1), RemoveAt(og, optidx + 1),
                     DecoderDecode(opt, a[optidx + 1], d, c))

\* faulty variant: an option with no argument left decodes the empty string
processLongOption_emptyArgAtEnd(p, a, optidx, og, d, c) ==
    LET keyval == SplitEq(TrimPrefix(a[optidx], DashDash))
        name == keyval[1]
        opt == findOption(p, name)
    IN  IF opt = NoOption
        THEN ProcessResult(opt, a, og, Error("is not recognized", DashDash \o name), d, c)
        ELSE IF Options[opt].Flag
        THEN IF Len(keyval) = 2
             THEN ProcessResult(opt, a, og,
                                Error("does not accept an argument", DashDash \o name), d, c)
             ELSE Decoded(opt, a, og, DecoderDecode(opt, <<>>, d, c))
        ELSE IF Len(keyval) = 2
        THEN Decoded(opt, a, og, DecoderDecode(opt, keyval[2], d, c))
        ELSE IF Len(a) - optidx + 1 < 2
        THEN Decoded(opt, a, og, DecoderDecode(opt, <<>>, d, c))
        ELSE Decoded(opt, RemoveAt(a, optidx + 1), RemoveAt(og, optidx + 1),
                     DecoderDecode(opt, a[optidx + 1], d, c))

\* faulty variant: the consumed argument is left in args
processLongOption_keepsConsumed(p, a, optidx, og, d, c) ==
    LET keyval == SplitEq(TrimPrefix(a[optidx], DashDash))
        name == keyval[1]
        opt == findOption(p, name)
    IN  IF opt = NoOption
        THEN ProcessResult(opt, a, og, Error("is not recognized", DashDash \o name), d, c)
        ELSE IF Options[opt].Flag
        THEN IF Len(keyval) = 2
             THEN ProcessResult(opt, a, og,
                                Error("does not accept an argument", DashDash \o name), d, c)
             ELSE Decoded(opt, a, og, DecoderDecode(opt, <<>>, d, c))
        ELSE IF Len(keyval) = 2
        THEN Decoded(opt, a, og, DecoderDecode(opt, keyval[2], d, c))
        ELSE IF Len(a) - optidx + 1 < 2
        THEN ProcessResult(opt, a, og,
                           Error("requires an argument", DashDash \o name), d, c)
        ELSE Decoded(opt, a, og, DecoderDecode(opt, a[optidx + 1], d, c))

processLongOption(p, a, optidx, og, d, c) ==
    LET keyval == SplitEq(TrimPrefix(a[optidx], DashDash))
        name == keyval[1]
        opt == findOption(p, name)
    IN  IF opt = NoOption
        THEN ProcessResult(opt, a, og, Error("is not recognized", DashDash \o name), d, c)
        ELSE IF Options[opt].Flag
        THEN IF Len(keyval) = 2
             THEN ProcessResult(opt, a, og,
                                Error("does not accept an argument", DashDash \o name), d, c)
             ELSE Decoded(opt, a, og, DecoderDecode(opt, <<>>, d, c))
        ELSE IF Len(keyval) = 2
        THEN Decoded(opt, a, og, DecoderDecode(opt, keyval[2], d, c))
        ELSE IF Len(a) - optidx + 1 < 2
        THEN ProcessResult(opt, a, og,
                           Error("requires an argument", DashDash \o name), d, c)
        ELSE \* consume the next arg
             Decoded(opt, RemoveAt(a, optidx + 1), RemoveAt(og, optidx + 1),
                     DecoderDecode(opt, a[optidx + 1], d, c))

\* faulty variant: the tail of a short flag cluster is dropped instead of re-inserted
processShortOption_dropsTail(p, a, optidx, og, d, c) ==
    LET keyval == SplitFirst(TrimPrefix(a[optidx], Dash))
        name == keyval[1]
        opt == findOption(p, name)
    IN  IF opt = NoOption
        THEN ProcessResult(opt, a, og, Error("is not recognized", Dash \o name), d, c)
        ELSE IF Options[opt].Flag
        THEN IF Len(keyval) = 2
             THEN \* rewrite the current arg as -<name>
                  Decoded(opt, [a EXCEPT ![optidx] = Dash \o name], og,
                          DecoderDecode(opt, <<>>, d, c))
             ELSE Decoded(opt, a, og, DecoderDecode(opt, <<>>, d, c))
        ELSE IF Len(keyval) = 2
        THEN Decoded(opt, a, og, DecoderDecode(opt, keyval[2], d, c))
        ELSE IF Len(a) - optidx + 1 < 2
        THEN ProcessResult(opt, a, og,
                           Error("requires an argument", Dash \o name), d, c)
        ELSE \* consume the next arg
             Decoded(opt, RemoveAt(a, optidx + 1), RemoveAt(og, optidx + 1),
                     DecoderDecode(opt, a[optidx + 1], d, c))

\* faulty variant: the split inserts the whole cluster again
processShortOption_reinsertsToken(p, a, optidx, og, d, c) ==
    LET keyval == SplitFirst(TrimPrefix(a[optidx], Dash))
        name == keyval[1]
        opt == findOption(p, name)
    IN  IF opt = NoOption
        THEN ProcessResult(opt, a, og, Error("is not recognized", Dash \o name), d, c)
        ELSE IF Options[opt].Flag
        THEN IF Len(keyval) = 2
             THEN Decoded(opt,
                          [InsertAt(a, optidx + 1, a[optidx])
                              EXCEPT ![optidx] = Dash \o name],
                          InsertAt(og, optidx + 1, 0),
                          DecoderDecode(opt, <<>>, d, c))
             ELSE Decoded(opt, a, og, DecoderDecode(opt, <<>>, d, c))
        ELSE IF Len(keyval) = 2
        THEN Decoded(opt, a, og, DecoderDecode(opt, keyval[2], d, c))
        ELSE IF Len(a) - optidx + 1 < 2
        THEN ProcessResult(opt, a, og,
                           Error("requires an argument", Dash \o name), d, c)
        ELSE Decoded(opt, RemoveAt(a, optidx + 1), RemoveAt(og, optidx + 1),
                     DecoderDecode(opt, a[optidx + 1], d, c))

processShortOption(p, a, optidx, og, d, c) ==
    LET keyval == SplitFirst(TrimPrefix(a[optidx], Dash))
        name == keyval[1]
        opt == findOption(p, name)
    IN  IF opt = NoOption
        THEN ProcessResult(opt, a, og, Error("is not recognized", Dash \o name), d, c)
        ELSE IF Options[opt].Flag
        THEN IF Len(keyval) = 2
             THEN \* rewrite the current arg as -<name>, insert -<tail> after it
                  Decoded(opt,
                          [InsertAt(a, optidx + 1, Dash \o keyval[2])
                              EXCEPT ![optidx] = Dash \o name],
                          InsertAt(og, optidx + 1, 0),
                          DecoderDecode(opt, <<>>, d, c))
             ELSE Decoded(opt, a, og, DecoderDecode(opt, <<>>, d, c))
        ELSE IF Len(keyval) = 2
        THEN Decoded(opt, a, og, DecoderDecode(opt, keyval[2], d, c))
        ELSE IF Len(a) - optidx + 1 < 2
        THEN ProcessResult(opt, a, og,
                           Error("requires an argument", Dash \o name), d, c)
        ELSE \* consume the next arg
             Decoded(opt, RemoveAt(a, optidx + 1), RemoveAt(og, optidx + 1),
                     DecoderDecode(opt, a[optidx + 1], d, c))

processOption(p, a, optidx, og, d, c) ==
    IF HasPrefix(a[optidx], DashDash)
    THEN processLongOption(p, a, optidx, og, d, c)
    ELSE processShortOption(p, a, optidx, og, d, c)

----------------------------------------------------------------------------
(* parseArgs.  A scan state is a record of parseArgs' locals, the          *)
(* destinations and the history; each branch of the loop body is an        *)
(* operator from scan state to scan state.                                 *)

\* history record of one loop iteration: the token scanned, the branch taken,
\* the token's index in the caller's slice (0 if a cluster split made it), its
\* index in args, the number of elements of args after it, the number of
\* decoder invocations before the iteration, and the option it resolved to
LogEntry(s, role, opt) ==
    [tok |-> s.args[s.i], role |-> role, src |-> s.origin[s.i], pos |-> s.i,
     rest |-> Len(s.args) - s.i, ncalls |-> Len(s.calls), opt |-> opt]

\* faulty variant: positional is left as the nil slice of the named result
parseArgsInit_nilPositional(c, a, d) ==
    [pc |-> "scan", args |-> a, caller |-> a, aliased |-> TRUE,
     origin |-> [k \in 1..Len(a) |-> k], i |-> 1,
     path |-> <<c>>, positional |-> <<>>, made |-> FALSE, seen |-> {}, parseCmd |-> TRUE,
     parseOpt |-> TRUE, err |-> NoErr, dest |-> d, calls |-> <<>>, log |-> <<>>]

\* faulty variant: the seen-set outlives the call
parseArgsInit_seenKept(c, a, d) ==
    [pc |-> "scan", args |-> a, caller |-> a, aliased |-> TRUE,
     origin |-> [k \in 1..Len(a) |-> k], i |-> 1,
     path |-> <<c>>, positional |-> <<>>, made |-> TRUE, seen |-> seen, parseCmd |-> TRUE,
     parseOpt |-> TRUE, err |-> NoErr, dest |-> d, calls |-> <<>>, log |-> <<>>]

\* the state at the top of parseArgs' loop: path = Path{c}, positional made
\* with length 0, seen empty, parseCmd and parseOpt true, i = 0
parseArgsInit(c, a, d) ==
    [pc |-> "scan", args |-> a, caller |-> a, aliased |-> TRUE,
     origin |-> [k \in 1..Len(a) |-> k], i |-> 1,
     path |-> <<c>>, positional |-> <<>>, made |-> TRUE, seen |-> {}, parseCmd |-> TRUE,
     parseOpt |-> TRUE, err |-> NoErr, dest |-> d, calls |-> <<>>, log |-> <<>>]

\* which branch of the loop body the token at the scan position takes
IsSubcommandCase(s) ==
    s.parseCmd /\ Subcommand(Last(s.path), s.args[s.i]) # NoCommand

\* faulty variant: the option branch taken whatever parseOpt is
IsOptionParseCase_ignoresParseOpt(s) ==
    ~(s.parseCmd /\ Subcommand(Last(s.path), s.args[s.i]) # NoCommand)
    /\ HasPrefix(s.args[s.i], Dash)

IsOptionParseCase(s) ==
    ~IsSubcommandCase(s) /\ s.parseOpt /\ HasPrefix(s.args[s.i], Dash)

IsDashCase(s) == IsOptionParseCase(s) /\ s.args[s.i] = Dash

IsTerminatorCase(s) == IsOptionParseCase(s) /\ s.args[s.i] = DashDash

IsOptionCase(s) ==
    IsOptionParseCase(s) /\ s.args[s.i] # Dash /\ s.args[s.i] # DashDash

IsPositionalCase(s) == ~IsSubcommandCase(s) /\ ~IsOptionParseCase(s)

\* path = append(path, subcmd); continue
SubcommandStep(s) ==
    [s EXCEPT !.path = Append(@, Subcommand(Last(s.path), s.args[s.i])),
              !.i = @ + 1,
              !.log = Append(@, LogEntry(s, "subcommand", NoOption))]

\* faulty variant: the "-" branch without parseCmd = false
DashStep_keepsParseCmd(s) ==
    [s EXCEPT !.positional = Append(@, s.args[s.i]),
              !.i = @ + 1,
              !.log = Append(@, LogEntry(s, "dash", NoOption))]

\* faulty variant: the "-" branch ends option parsing as "--" does
DashStep_endsOptions(s) ==
    [s EXCEPT !.positional = Append(@, s.args[s.i]),
              !.parseCmd = FALSE,
              !.parseOpt = FALSE,
              !.i = @ + 1,
              !.log = Append(@, LogEntry(s, "dash", NoOption))]

\* a == "-": positional = append(positional, a); parseCmd = false; continue
DashStep(s) ==
    [s EXCEPT !.positional = Append(@, s.args[s.i]),
              !.parseCmd = FALSE,
              !.i = @ + 1,
              !.log = Append(@, LogEntry(s, "dash", NoOption))]

\* faulty variant: the "--" branch without parseOpt = false
TerminatorStep_keepsParseOpt(s) ==
    [s EXCEPT !.parseCmd = FALSE,
              !.i = @ + 1,
              !.log = Append(@, LogEntry(s, "terminator", NoOption))]

\* a == "--": parseOpt = false; parseCmd = false; continue
TerminatorStep(s) ==
    [s EXCEPT !.parseOpt = FALSE,
              !.parseCmd = FALSE,
              !.i = @ + 1,
              !.log = Append(@, LogEntry(s, "terminator", NoOption))]

\* faulty variant: a processed option ends subcommand matching
checkOption_endsSubcommands(s, r) ==
    LET t == [s EXCEPT !.args = r.args, !.origin = r.origin, !.dest = r.dest,
                       !.calls = r.calls, !.parseCmd = FALSE,
                       !.log = Append(@, LogEntry(s, "option", r.opt))]
    IN  IF r.err # NoErr
        THEN [t EXCEPT !.err = r.err, !.pc = "done"]
        ELSE IF r.opt \in s.seen /\ ~Options[r.opt].Plural
        THEN [t EXCEPT !.err = Error("specified too many times", r.args[s.i]),
                       !.pc = "done"]
        ELSE [t EXCEPT !.seen = @ \cup {r.opt}, !.i = @ + 1]

\* faulty variant: no repetition check
checkOption_noRepetitionCheck(s, r) ==
    LET t == [s EXCEPT !.args = r.args, !.origin = r.origin, !.dest = r.dest,
                       !.calls = r.calls,
                       !.log = Append(@, LogEntry(s, "option", r.opt))]
    IN  IF r.err # NoErr
        THEN [t EXCEPT !.err = r.err, !.pc = "done"]
        ELSE [t EXCEPT !.seen = @ \cup {r.opt}, !.i = @ + 1]

\* faulty variant: the repetition error names the first element of args
checkOption_namesFirstArg(s, r) ==
    LET t == [s EXCEPT !.args = r.args, !.origin = r.origin, !.dest = r.dest,
                       !.calls = r.calls,
                       !.log = Append(@, LogEntry(s, "option", r.opt))]
    IN  IF r.err # NoErr
        THEN [t EXCEPT !.err = r.err, !.pc = "done"]
        ELSE IF r.opt \in s.seen /\ ~Options[r.opt].Plural
        THEN [t EXCEPT !.err = Error("specified too many times", r.args[1]),
                       !.pc = "done"]
        ELSE [t EXCEPT !.seen = @ \cup {r.opt}, !.i = @ + 1]

\* faulty variant: an error returns the root alone as the Path
checkOption_resetsPath(s, r) ==
    LET t == [s EXCEPT !.args = r.args, !.origin = r.origin, !.dest = r.dest,
                       !.calls = r.calls,
                       !.log = Append(@, LogEntry(s, "option", r.opt))]
    IN  IF r.err # NoErr
        THEN [t EXCEPT !.err = r.err, !.pc = "done", !.path = <<s.path[1]>>]
        ELSE IF r.opt \in s.seen /\ ~Options[r.opt].Plural
        THEN [t EXCEPT !.err = Error("specified too many times", r.args[s.i]),
                       !.pc = "done", !.path = <<s.path[1]>>]
        ELSE [t EXCEPT !.seen = @ \cup {r.opt}, !.i = @ + 1]

\* faulty variant: an error puts the destinations back to their state at the
\* start of the call
checkOption_rollsBack(s, r) ==
    LET t == [s EXCEPT !.args = r.args, !.origin = r.origin, !.dest = r.dest,
                       !.calls = r.calls,
                       !.log = Append(@, LogEntry(s, "option", r.opt))]
    IN  IF r.err # NoErr
        THEN [t EXCEPT !.err = r.err, !.pc = "done",
                       !.dest = setDefaults(s.path[1], ZeroDest, env).dest]
        ELSE IF r.opt \in s.seen /\ ~Options[r.opt].Plural
        THEN [t EXCEPT !.err = Error("specified too many times", r.args[s.i]),
                       !.pc = "done",
                       !.dest = setDefaults(s.path[1], ZeroDest, env).dest]
        ELSE [t EXCEPT !.seen = @ \cup {r.opt}, !.i = @ + 1]

\* faulty variant: the repetition check comes first and keeps the decoder
\* from being invoked
checkOption_repetitionFirst(s, r) ==
    LET t == [s EXCEPT !.args = r.args, !.origin = r.origin,
                       !.log = Append(@, LogEntry(s, "option", r.opt))]
    IN  IF r.opt # NoOption /\ r.opt \in s.seen /\ ~Options[r.opt].Plural
        THEN [t EXCEPT !.err = Error("specified too many times", r.args[s.i]),
                       !.pc = "done"]
        ELSE IF r.err # NoErr
        THEN [t EXCEPT !.err = r.err, !.pc = "done", !.dest = r.dest, !.calls = r.calls]
        ELSE [t EXCEPT !.seen = @ \cup {r.opt}, !.i = @ + 1, !.dest = r.dest,
                       !.calls = r.calls]

\* the error check and the repetition check on the result r of processOption
checkOption(s, r) ==
    LET t == [s EXCEPT !.args = r.args, !.origin = r.origin, !.dest = r.dest,
                       !.calls = r.calls,
                       !.log = Append(@, LogEntry(s, "option", r.opt))]
    IN  IF r.err # NoErr
        THEN [t EXCEPT !.err = r.err, !.pc = "done"]
        ELSE IF r.opt \in s.seen /\ ~Options[r.opt].Plural
        THEN [t EXCEPT !.err = Error("specified too many times", r.args[s.i]),
                       !.pc = "done"]
        ELSE [t EXCEPT !.seen = @ \cup {r.opt}, !.i = @ + 1]

\* a slice: its elements, and whether its backing array is the caller's
Slice(elems, shared) == [elems |-> elems, aliased |-> shared]

\* faulty variant: the slice itself is returned
duplicateArgs_sameArray(sl) == sl

\* duplicateArgs: dupe := make([]string, len(args)); dupe[i] = args[i] for
\* each i.  The elements are those of args, the backing array is a new one.
duplicateArgs(sl) ==
    [elems |-> [k \in 1..Len(sl.elems) |-> sl.elems[k]], aliased |-> FALSE]

\* an array after append(a[:k], a[k+1:]...) within its capacity: the
\* elements after position k are copied one place down, the last one stays
ShiftedDown(a, k) == RemoveAt(a, k) \o <<a[Len(a)]>>

\* what processOption's splice writes, dupe being duplicateArgs(args).
\* Consuming the next arg shortens dupe in place.  Splitting a cluster
\* appends past len(dupe) = cap(dupe), so append allocates a new array and
\* newargs[optidx] is assigned in that one.  No splice: newargs = args.
afterSplice(s, r, dupe) ==
    IF Len(r.args) < Len(s.args)
    THEN [s EXCEPT !.caller = IF dupe.aliased THEN ShiftedDown(@, s.i + 1) ELSE @,
                   !.aliased = dupe.aliased]
    ELSE IF Len(r.args) > Len(s.args)
    THEN [s EXCEPT !.aliased = FALSE]
    ELSE s

\* opt, args, err = processOption(path, args, i) returned r, then the checks
optionReturned(s, r) ==
    checkOption(afterSplice(s, r, duplicateArgs(Slice(s.args, s.aliased))), r)

\* opt, args, err = processOption(path, args, i), then the checks
OptionStep(s) ==
    CHOOSE t \in { optionReturned(s, r) :
                      r \in {processOption(s.path, s.args, s.i, s.origin, s.dest, s.calls)} } :
        TRUE

\* faulty variant: the unmatched-argument branch without parseCmd = false
PositionalStep_keepsParseCmd(s) ==
    [s EXCEPT !.positional = Append(@, s.args[s.i]),
              !.i = @ + 1,
              !.log = Append(@, LogEntry(s, "positional", NoOption))]

\* unmatched positional arg: parseCmd = false; positional = append(positional, a)
PositionalStep(s) ==
    [s EXCEPT !.parseCmd = FALSE,
              !.positional = Append(@, s.args[s.i]),
              !.i = @ + 1,
              !.log = Append(@, LogEntry(s, "positional", NoOption))]

\* the loop condition fails: return
ReturnStep(s) == [s EXCEPT !.pc = "done"]

\* one iteration of parseArgs' loop (or the return after it)
LoopStep(s) ==
    IF s.i > Len(s.args) THEN ReturnStep(s)
    ELSE IF IsSubcommandCase(s) THEN SubcommandStep(s)
    ELSE IF IsDashCase(s) THEN DashStep(s)
    ELSE IF IsTerminatorCase(s) THEN TerminatorStep(s)
    ELSE IF IsOptionCase(s) THEN OptionStep(s)
    ELSE PositionalStep(s)

\* parseArgs run to its return
RECURSIVE parseArgsFrom(_)
parseArgsFrom(s) == IF s.pc = "done" THEN s ELSE parseArgsFrom(LoopStep(s))

\* c.Decode(a) with destinations d and environment e, up to parseArgs' loop,
\* where validate and setDefaults return
CommandDecode(c, a, d, e) == parseArgsInit(c, a, setDefaults(c, d, e).dest)

\* Decode on the root top.  None of its decoders is an OptionDefaulter, so
\* setDefaults changes nothing, whatever the environment.
DecodeStart(a, d) == CommandDecode("top", a, d, EmptyEnv)

\* the state Decode returns in, for the argument vector a on a fresh spec
DecodeResult(a) == parseArgsFrom(DecodeStart(a, ZeroDest))

----------------------------------------------------------------------------
(* Argument vectors handed to Decode *)

MaxArgs == 4       \* longest argument vector drawn from Vocabulary
MaxCluster == 3    \* longest run of one flag in a short cluster

T_mid == <<"m", "i", "d">>
T_bottom == <<"b", "o", "t", "t", "o", "m">>
T_foo == <<"f", "o", "o">>
T_1 == <<"1">>
T_t == <<"-", "t">>
T_m == <<"-", "m">>
T_b == <<"-", "b">>
T_x == <<"-", "x">>
T_a == <<"-", "a">>
T_xx == <<"-", "-", "x">>
T_midval == <<"-", "-", "m", "i", "d", "v", "a", "l">>

T_second == <<"s", "e", "c", "o", "n", "d">>

Vocabulary ==
    {T_mid, T_bottom, T_second, T_foo, Dash, DashDash, T_t, T_1, T_m, T_x, T_a}

SeqsUpTo(S, n) == UNION {[1..k -> S] : k \in 0..n}

\* argument vectors of the tests and of Decode's documentation
Examples ==
    { <<T_mid, T_foo, T_bottom>>,
      << <<"a">>, DashDash, T_b, <<"s", "u", "b", "c", "m", "d">> >>,
      <<T_foo, DashDash, T_t, T_mid>>,
      << <<"-", "a", "-">>, T_t, T_1, T_mid >>,
      << <<"-", "a", "a", "t", "1">>, T_mid, Dash, T_bottom >>,
      <<T_xx, T_1, T_mid>>,
      <<T_mid, T_xx, T_1>>,
      <<T_m, <<"2">>, T_mid>>,
      <<T_midval, <<"2">>, T_mid>>,
      <<T_mid, T_b, <<"3">>, T_bottom>>,
      <<T_mid, T_m, <<"2">>>>,
      <<T_mid, T_bottom, T_b, <<"3">>, T_foo>>,
      <<Dash, T_t, T_1, DashDash, T_mid>>,
      <<T_mid, DashDash, T_bottom, DashDash, T_b, <<"3">>>>,
      <<T_t, T_1, <<"2", "n", "d">>, <<"t", "h", "i", "r", "d">>, T_foo>> }

\* n copies of x
Copies(x, n) == [k \in 1..n |-> x]

\* the short cluster "-aa...a" with n copies of a
Cluster(n) == Dash \o Copies("a", n)

ClusterVectors ==
    { <<Cluster(n)>> : n \in 1..MaxCluster } \cup { Copies(T_a, n) : n \in 1..MaxCluster }

\* arguments given to the option o/opt
T_foobar == <<"f", "o", "o", "b", "a", "r">>
ArgValues ==
    { T_foobar, T_foo, <<"p", "u", "p">>, T_mid, Dash, DashDash, T_a, T_t,
      <<"=">>, <<"f", "o", "o", "=", "1">>, <<"=", "f", "o", "o">>, <<"-", "-", "o", "p", "t">>,
      <<"o">>, <<" ">> }

LongInline(X) == <<"-", "-", "o", "p", "t", "=">> \o X
LongName == <<"-", "-", "o", "p", "t">>
ShortInline(X) == <<"-", "o">> \o X
ShortName == <<"-", "o">>

AttachForms(X) ==
    { <<LongInline(X)>>, <<LongName, X>>, <<ShortInline(X)>>, <<ShortName, X>> }

AttachVectors == UNION { AttachForms(X) : X \in ArgValues }

T_f == <<"-", "f">>
T_flag == <<"-", "-", "f", "l", "a", "g">>
T_acc == <<"-", "-", "a", "c", "c">>
T_topval == <<"-", "-", "t", "o", "p", "v", "a", "l">>
T_bogus == <<"-", "-", "b", "o", "g", "u", "s">>
T_2 == <<"2">>
T_3 == <<"3">>

\* a non-plural option given twice, in the forms of the flag and
\* custom-decoder tests, and with a second occurrence that fails by itself
RepeatVectors ==
    { <<T_f, T_f>>,
      << <<"-", "f", "f">> >>,
      << <<"-", "f", "f", "f">> >>,
      <<T_flag, T_flag>>,
      <<T_flag, T_f>>,
      <<T_f, T_foo, T_flag>>,
      <<LongName, T_foobar, ShortName, T_foobar>>,
      <<ShortInline(T_foobar), ShortInline(T_foobar)>>,
      <<LongInline(T_foobar), ShortName, T_foo>>,
      <<ShortName, T_foo, T_mid, LongInline(T_foobar), T_bottom>>,
      << <<"-", "t", "1">>, T_topval \o <<"=", "2">> >>,
      << <<"-", "a", "f">>, <<"-", "a", "f">> >>,
      <<T_f, T_foo, <<"-", "f", "a">>, T_mid>>,
      <<T_a, <<"-", "a", "f", "a", "f">> >>,
      <<T_mid, T_m, T_2, T_midval, T_3>>,
      <<T_x, T_1, T_mid, T_x, T_2>>,
      <<T_x, T_1, T_mid, T_x, T_2, T_xx, T_3>>,
      <<T_f, T_flag \o <<"=", "1">> >>,
      <<ShortInline(T_foo), ShortName>>,
      <<LongInline(T_foo), LongInline(<<"p", "u", "p">>)>> }

\* flags with and without an inline argument, as in the flag tests
FlagVectors ==
    { <<T_flag \o <<"=", "1">> >>,
      <<T_flag \o <<"=">> >>,
      <<T_flag \o <<"=">>, T_mid>>,
      <<T_acc \o <<"=", "3">> >>,
      <<T_a, T_acc \o <<"=">> >>,
      <<T_flag>>,
      <<T_flag, T_foo>>,
      <<T_flag, T_mid, T_bottom>>,
      <<T_acc, T_1, T_acc>>,
      <<T_f, T_1>>,
      << <<"-", "f", "1">> >>,
      << <<"-", "a", "3">> >> }

\* options that lack their argument, and tokens no command declares
ErrorVectors ==
    { <<ShortName>>,
      <<LongName>>,
      <<T_topval>>,
      <<T_foo, ShortName>>,
      <<T_a, T_mid, T_midval>>,
      <<T_mid, T_bottom, T_b>>,
      <<ShortName, DashDash>>,
      <<LongName, LongName>>,
      <<T_mid, T_bogus>>,
      <<T_bogus, T_mid>>,
      <<T_t, T_1, T_bogus>>,
      <<T_t, T_1, T_bogus, T_mid, T_m, T_2>>,
      <<T_a, T_t, T_1, T_mid, T_m, T_foo, T_bottom>>,
      <<T_mid, T_bottom, T_b, T_3, <<"-", "q">>, T_foo>>,
      <<T_a, ShortName, T_foo, T_mid, <<"-", "a", "a", "m">> >> }

ArgVectors ==
    SeqsUpTo(Vocabulary, MaxArgs) \cup Examples \cup ClusterVectors \cup AttachVectors
        \cup RepeatVectors \cup FlagVectors \cup ErrorVectors

\* Decode called on the subcommand mid
MidVectors ==
    { <<T_bottom, T_b, T_3>>,
      <<T_m, T_2, T_foo>>,
      <<T_x, T_1, T_bottom>>,
      <<T_t, T_1>>,
      <<T_mid>>,
      <<T_bottom, T_bogus>>,
      <<>> }

\* argument vectors of the default-value tests; their first is the one
\* empty string of the tests without an option
T_d == <<"-", "d">>
T_e == <<"-", "e">>
T_s == <<"-", "s">>
T_4 == <<"4">>

DefaultVectors ==
    { << <<>> >>,
      <<>>,
      <<T_d, T_2>>,
      <<T_d, T_foo>>,
      <<T_e, T_4>>,
      <<T_e, T_foo>>,
      <<T_s, T_4>>,
      <<T_s, T_foo>>,
      << <<"-", "s", "4">> >>,
      << <<"-", "-", "s", "=", "4">> >>,
      <<T_foo, T_s, T_4, T_e, T_2>>,
      <<T_s, T_4, T_s, T_2>>,
      <<T_s>>,
      <<DashDash, T_s, T_4>> }

\* values of an environment variable: unset, a numeral, not a numeral
EnvValues == { Unset, SetTo(T_2), SetTo(T_foo) }

Environments == [EnvNames -> EnvValues]

\* occurrences of the plural options of the map and slice tests
MaxOccurrences == 3    \* most occurrences of plural options in one vector

Occurrences ==
    { <<T_s, T_1>>,
      <<T_s, <<"-", "1">> >>,
      << <<"-", "s", "x">> >>,
      <<T_m, <<"a", "=", "b">> >>,
      <<T_m, <<"a", "=", "c">> >>,
      << <<"-", "m", "c", "=", "d">> >> }

RECURSIVE Concat(_)
Concat(q) == IF q = <<>> THEN <<>> ELSE Head(q) \o Concat(Tail(q))

PluralVectors ==
    { Concat(q) : q \in SeqsUpTo(Occurrences, MaxOccurrences) }
        \cup { <<T_s, T_1, DashDash, T_s, T_2>>,
               <<T_m, <<"a", "=", "b", "=", "c">>, T_m, <<"a">> >>,
               <<T_s, DashDash, T_s>>,
               <<T_s, <<>>, T_m>> }

\* argument vectors for the slice option with a default
ListVectors ==
    { <<>>,
      <<T_s, <<"y">> >>,
      << <<"-", "s", "y">>, T_s, <<"z">> >>,
      <<T_foo, DashDash, T_s>>,
      <<T_s>> }

\* fmt.Sprintf("%d", n), as the basic field tests write their numerals
RECURSIVE DigitsOf(_)
DigitsOf(n) ==
    IF n < 10 THEN <<Digits[n + 1]>>
    ELSE Append(DigitsOf(n \div 10), Digits[(n % 10) + 1])

Itoa(n) == IF n < 0 THEN <<"-">> \o DigitsOf(0 - n) ELSE DigitsOf(n)

MaxNumeral == 300    \* the numerals decoded range over -MaxNumeral..MaxNumeral

Numbers == (0 - MaxNumeral)..MaxNumeral

T_int8 == <<"-", "-", "i", "n", "t", "8">>
T_uint8 == <<"-", "-", "u", "i", "n", "t", "8">>
T_string == <<"-", "-", "s", "t", "r", "i", "n", "g">>
T_5 == <<"5">>

\* strings that are no decimal integer
NonNumerals ==
    { <<>>, <<"1", ".", "0">>, <<"0", "x", "0", "1">>, Dash, DashDash, <<"1", "a">>,
      <<" ", "1">>, <<"+">> }

\* the integer options of the basic field tests: every numeral alone, and
\* after an occurrence that decoded 5
IntVectors ==
    UNION { { <<o, v>>, <<o, T_5, o, v>> } :
              o \in {T_int8, T_uint8},
              v \in { Itoa(n) : n \in Numbers } \cup NonNumerals }
        \cup { <<T_int8 \o <<"=">> \o Itoa(n)>> : n \in {-129, -128, 127, 128} }
        \cup { <<T_int8, <<"+", "1", "2", "7">> >>, <<T_int8, <<"+", "1", "2", "8">> >>,
               <<T_uint8, <<"+", "1">> >>, <<T_uint8, <<"-", "0">> >>,
               <<T_int8, <<"-", "0">> >>, <<T_int8, <<"0", "1", "2", "7">> >>,
               <<T_int8>>, <<T_uint8>> }

\* tokens the string option consumes as its argument
ConsumedValues ==
    { DashDash, Dash, T_a, <<"-", "-", "a">>, <<>>, T_string, T_int8, T_1 }

\* what follows the string option and its argument
AfterConsumed ==
    { <<>>, <<T_int8, T_5>>, <<T_foo, T_int8, T_5>>, <<DashDash, T_int8>>, <<Dash>> }

StringVectors ==
    { <<T_string, v>> \o rest : v \in ConsumedValues, rest \in AfterConsumed }
        \cup { <<T_int8, T_5, T_string, v>> : v \in ConsumedValues }
        \cup { <<T_string>>, <<T_string, T_foo, T_string, T_foo>> }

\* the calls of Decode: the command, the argument vector, the environment
Invocation(c, a, e) == [root |-> c, args |-> a, env |-> e]

Invocations ==
    { Invocation("top", a, EmptyEnv) : a \in ArgVectors }
        \cup { Invocation("mid", a, EmptyEnv) : a \in MidVectors }
        \cup { Invocation("defaults", a, e) : a \in DefaultVectors, e \in Environments }
        \cup { Invocation("mapslice", a, EmptyEnv) : a \in PluralVectors }
        \cup { Invocation("listdefault", a, EmptyEnv) : a \in ListVectors }
        \cup { Invocation("basic", a, EmptyEnv) : a \in IntVectors \cup StringVectors }

\* argument vectors for the roots whose defaults are nested or rejected
T_one == <<"o", "n", "e">>
T_two == <<"t", "w", "o">>
T_leaf == <<"l", "e", "a", "f">>
T_sub == <<"s", "u", "b">>
T_c == <<"-", "c">>
T_p == <<"-", "p">>
T_u == <<"-", "u">>

NestedVectors ==
    { <<>>,
      <<T_one>>,
      <<T_one, T_leaf, T_d, T_4>>,
      <<T_two, T_e, T_2>>,
      <<T_a, T_2>>,
      <<T_a, T_foo>>,
      <<T_b, T_3, T_p, T_1, T_one, T_c, T_2>>,
      <<T_bogus>> }

RejectedVectors == { <<>>, <<T_a, T_2>>, <<T_s, T_4>>, <<T_u, T_foo>>, <<T_bogus>> }

OverflowVectors == { <<>>, <<T_sub>>, <<T_sub, T_int8, T_5>>, <<T_foo>> }

\* vectors on the root top that select no subcommand, one, or both
TopVectors == Examples \cup { <<>>, <<T_t, T_1>>, <<T_a, T_a>>, <<T_bogus>> }

\* the calls of Decode made on trees the caller has written to, and on the
\* roots with defaults
ConfiguredInvocations ==
    { Invocation("top", a, EmptyEnv) : a \in TopVectors }
        \cup { Invocation("mid", a, EmptyEnv) : a \in MidVectors }
        \cup { Invocation("defaults", a, e) : a \in DefaultVectors, e \in Environments }
        \cup { Invocation("nested", a, e) : a \in NestedVectors, e \in Environments }
        \cup { Invocation("rejected", a, e) : a \in RejectedVectors, e \in Environments }
        \cup { Invocation("overflowroot", a, EmptyEnv) : a \in OverflowVectors }

\* one write of the caller into the tree New built that leaves a Command
\* or an Option of it in a state validate rejects.  Where validate lets
\* such a tree through, the defect lies outside the part of the tree below
\* the command Decode was called on, or in that command's own aliases,
\* which parseArgs does not read: the decoded part is as New built it.
Defects ==
    { [field |-> "Name", id |-> c, val |-> n] :
         c \in {"top", "mid", "bottom", "nestedleaf"},
         n \in { <<>>, <<"-", "a">>, <<"a", " ">> } }
        \cup { [field |-> "Aliases", id |-> c, val |-> q] :
                  c \in {"top", "mid", "bottom"},
                  q \in { << <<"-", "a">> >>, << <<"a">>, <<"a", "\t", "b">> >> } }
        \cup { [field |-> "Aliases", id |-> "mid", val |-> <<T_mid>>],
               [field |-> "Aliases", id |-> "nestedtwo", val |-> <<T_one>>] }
        \cup { [field |-> "Names", id |-> o, val |-> q] :
                  o \in {"Top", "Mid", "Bottom", "Default", "NestedD"},
                  q \in { <<>>, << <<>> >>, << <<"-", "x">> >>, << <<"z">>, <<"z">> >> } }
        \cup { [field |-> "Names", id |-> "TopX", val |-> << <<"t">> >>] }
        \cup { [field |-> "Decoder", id |-> o, val |-> NoDecoder] :
                  o \in {"Top", "Bottom", "StackedDefault", "NestedE", "Unreached"} }

AlteredTrees == { EditTree(FixtureTree, e) : e \in Defects }

MaxDecodes == 2    \* most Decode calls on one tree

----------------------------------------------------------------------------
(* The state machine *)

Cur ==
    [pc |-> pc, args |-> args, caller |-> callerArgs, aliased |-> aliased,
     origin |-> origin, i |-> i, path |-> path,
     positional |-> positional, made |-> made, seen |-> seen, parseCmd |-> parseCmd,
     parseOpt |-> parseOpt, err |-> err, dest |-> dest, calls |-> calls, log |-> log]

Apply(s) ==
    /\ pc' = s.pc
    /\ args' = s.args
    /\ callerArgs' = s.caller
    /\ aliased' = s.aliased
    /\ origin' = s.origin
    /\ i' = s.i
    /\ path' = s.path
    /\ positional' = s.positional
    /\ made' = s.made
    /\ seen' = s.seen
    /\ parseCmd' = s.parseCmd
    /\ parseOpt' = s.parseOpt
    /\ err' = s.err
    /\ dest' = s.dest
    /\ calls' = s.calls
    /\ log' = s.log

\* the goroutines that call Decode at the same time
Threads == {1, 2}

\* a goroutine that has not called Decode: no arguments, no locals
NotCalled == [pc |-> "idle", orig |-> <<>>]

\* no Decode call was made yet
NothingDecoded ==
    /\ pc = "idle"
    /\ root = "top"
    /\ env = EmptyEnv
    /\ origArgs = <<>>
    /\ callerArgs = <<>>
    /\ aliased = FALSE
    /\ args = <<>>
    /\ origin = <<>>
    /\ i = 1
    /\ path = <<>>
    /\ positional = <<>>
    /\ made = FALSE
    /\ seen = {}
    /\ parseCmd = TRUE
    /\ parseOpt = TRUE
    /\ err = NoErr
    /\ dest = ZeroDest
    /\ entry = ZeroDest
    /\ calls = <<>>
    /\ log = <<>>
    /\ panicked = NoPanic
    /\ defaulted = <<>>
    /\ decodes = 0
    /\ threads = [t \in Threads |-> NotCalled]

\* after New: the fixture tree, nothing decoded yet
Init ==
    /\ NothingDecoded
    /\ tree = FixtureTree
    /\ built = FixtureTree
    /\ target = [kind |-> "Command", id |-> "top"]
    /\ verdicts = <<>>

Scanning == pc = "scan" /\ i <= Len(args)

\* what a panic of Decode leaves as it was
untouched == <<args, aliased, origin, i, path, positional, made, seen, parseCmd, parseOpt, err,
               calls, log>>

\* cmd.Decode(a) for the invocation inv: c.validate(), which returned v;
\* c.setDefaults(), which returned st; then parseArgs up to its loop
DecodeCall(inv, v, st) ==
    /\ root' = inv.root
    /\ env' = inv.env
    /\ origArgs' = inv.args
    /\ entry' = dest
    /\ decodes' = decodes + 1
    /\ tree' = v.tree
    /\ IF v.panic # NoPanic
       THEN /\ pc' = "panic"
            /\ panicked' = v.panic
            /\ callerArgs' = inv.args
            /\ UNCHANGED <<untouched, dest, defaulted>>
       ELSE IF st.panic # NoPanic
       THEN /\ pc' = "panic"
            /\ panicked' = st.panic
            /\ dest' = st.dest
            /\ defaulted' = st.defaulted
            /\ callerArgs' = inv.args
            /\ UNCHANGED untouched
       ELSE /\ Apply(CommandDecode(inv.root, inv.args, dest, inv.env))
            /\ panicked' = NoPanic
            /\ defaulted' = st.defaulted
    /\ UNCHANGED <<built, target, verdicts, threads>>

\* the first Decode call on the tree New built
Decode ==
    /\ pc = "idle"
    /\ \E inv \in Invocations :
          DecodeCall(inv, validate(tree, inv.root), setDefaults(inv.root, dest, inv.env))

MatchSubcommand ==
    /\ Scanning
    /\ IsSubcommandCase(Cur)
    /\ Apply(SubcommandStep(Cur))
    /\ UNCHANGED inputs

BareDash ==
    /\ Scanning
    /\ IsDashCase(Cur)
    /\ Apply(DashStep(Cur))
    /\ UNCHANGED inputs

Terminator ==
    /\ Scanning
    /\ IsTerminatorCase(Cur)
    /\ Apply(TerminatorStep(Cur))
    /\ UNCHANGED inputs

MatchOption ==
    /\ Scanning
    /\ IsOptionCase(Cur)
    /\ Apply(OptionStep(Cur))
    /\ UNCHANGED inputs

Positional ==
    /\ Scanning
    /\ IsPositionalCase(Cur)
    /\ Apply(PositionalStep(Cur))
    /\ UNCHANGED inputs

Return ==
    /\ pc = "scan"
    /\ i > Len(args)
    /\ Apply(ReturnStep(Cur))
    /\ UNCHANGED inputs

Next ==
    \/ Decode
    \/ MatchSubcommand
    \/ BareDash
    \/ Terminator
    \/ MatchOption
    \/ Positional
    \/ Return

Spec == Init /\ [][Next]_vars

----------------------------------------------------------------------------
(* validate called directly, on a Command or an Option of a tree that was  *)
(* built directly                                                          *)

ValidateInit ==
    /\ NothingDecoded
    /\ tree \in SampleTrees
    /\ built = tree
    /\ target \in Receivers
    /\ verdicts = <<>>

\* target.validate() on a Command
CommandValidate ==
    /\ target.kind = "Command"
    /\ Len(verdicts) < MaxValidations
    /\ verdicts' = Append(verdicts, validate(tree, target.id).panic)
    /\ tree' = validate(tree, target.id).tree
    /\ UNCHANGED <<decoding, built, target>>

\* target.validate() on an Option
OptionValidate ==
    /\ target.kind = "Option"
    /\ Len(verdicts) < MaxValidations
    /\ verdicts' = Append(verdicts, Option_validate(tree.opts[target.id]))
    /\ UNCHANGED <<decoding, tree, built, target>>

ValidateNext ==
    \/ CommandValidate
    \/ OptionValidate

ValidateSpec == ValidateInit /\ [][ValidateNext]_vars

----------------------------------------------------------------------------
(* Decode on a tree the caller has written to after New, and called again  *)

\* the caller writes a defect into the tree, before the first Decode call
\* or after one that returned
Alter ==
    /\ pc \in {"idle", "done"}
    /\ tree = FixtureTree
    /\ tree' \in AlteredTrees
    /\ built' = tree'
    /\ UNCHANGED <<decoding, target, verdicts>>

\* the first Decode call
DecodeConfigured ==
    /\ pc = "idle"
    /\ \E inv \in ConfiguredInvocations :
          DecodeCall(inv, validate(tree, inv.root), setDefaults(inv.root, dest, inv.env))

\* Decode called once more after it returned, on the same command and with
\* the same arguments and environment
DecodeAgain ==
    /\ pc = "done"
    /\ decodes < MaxDecodes
    /\ DecodeCall(Invocation(root, origArgs, env), validate(tree, root),
                  setDefaults(root, dest, env))

ConfigNext ==
    \/ Alter
    \/ DecodeConfigured
    \/ DecodeAgain
    \/ MatchSubcommand
    \/ BareDash
    \/ Terminator
    \/ MatchOption
    \/ Positional
    \/ Return

ConfigSpec == Init /\ [][ConfigNext]_vars

----------------------------------------------------------------------------
(* A sequence of Decode calls, each with arguments and an environment of   *)
(* its own, on trees New built                                             *)

MaxTokens == 2

T_2nd == <<"2", "n", "d">>
T_third == <<"t", "h", "i", "r", "d">>
T_a_dash == <<"-", "a", "-">>
T_a_dash_b == <<"-", "a", "-", "b">>
T_a_dash_t == <<"-", "a", "-", "t">>
T_a_eq == <<"-", "a", "=">>
T_a_t1 == <<"-", "a", "t", "1">>
T_sa == <<"a">>
T_sb == <<"b">>
T_empty == <<>>

SequenceVocabulary ==
    {T_mid, T_second, T_2nd, T_bottom, T_third, T_foo, DashDash, T_a, T_t, T_1, T_empty}

\* clusters of a flag whose tail begins with '-', and other tails
TailVectors ==
    { <<T_a_dash>>,
      <<T_a_dash, T_mid>>,
      <<T_a_dash, T_t, T_1>>,
      <<T_a_dash_b>>,
      <<T_a_dash_t>>,
      <<T_a_dash_t, T_1>>,
      <<T_a_eq>>,
      <<T_a_t1>>,
      <<T_a_t1, T_mid, T_m, T_2>>,
      << <<"-", "a", "a", "-">>, T_foo >>,
      << <<"-", "f", "a">>, T_second, T_third, T_b, T_3 >>,
      <<T_foo, <<"-", "a", "f">>, DashDash, T_a>>,
      <<T_t, DashDash, T_mid>>,
      <<T_empty, T_empty, T_a>> }

\* a non-plural option given twice within one call
TwiceFlagVectors ==
    { <<T_f, T_f>>,
      << <<"-", "f", "f">> >>,
      <<T_flag, T_f>>,
      <<T_t, T_1, T_t, T_1>>,
      << <<"-", "t", "1">>, T_t \o <<"2">> >>,
      << <<"-", "a", "f">>, <<"-", "a", "f">> >>,
      <<T_t, T_1, T_second, T_t, T_1>> }

SequenceVectors ==
    SeqsUpTo(SequenceVocabulary, MaxTokens) \cup ClusterVectors \cup TailVectors
        \cup TwiceFlagVectors \cup FlagVectors \cup ErrorVectors
        \cup { <<Dash>>, <<Dash, T_a>>, <<T_a, Dash>> }

\* a string option given twice, the second time with an argument of its own
TwiceVectors ==
    { <<T_string, T_sa, T_string, T_sb>>,
      <<T_string, T_sa, T_string \o <<"=">> \o T_sb>>,
      <<T_string, T_sa, T_foo, T_string, T_sb, T_foo>>,
      <<T_string, T_sa, T_string>>,
      <<T_int8, T_5, T_int8, T_foo>>,
      <<T_int8, T_5, T_int8, T_3>>,
      <<T_int8, T_5, T_int8, Itoa(128)>>,
      <<T_int8, T_foo, T_int8, T_5>>,
      <<T_string, T_sa>>,
      <<>> }

\* environments in which a variable may be present and empty
EmptyValue == SetTo(<<>>)

SequenceEnvironments == [EnvNames -> {Unset, EmptyValue, SetTo(T_foo)}]

EnvVectors == { <<>>, <<T_s, T_sa>>, <<<<"-", "e">>, T_sa>> }

FirstInvocations ==
    { Invocation("top", a, EmptyEnv) : a \in SequenceVectors }
        \cup { Invocation("basic", a, EmptyEnv) : a \in TwiceVectors }
        \cup { Invocation("envstring", a, e) : a \in EnvVectors, e \in SequenceEnvironments }
        \cup { Invocation("defaults", a, e) :
                   a \in {<<>>, <<<<"-", "e">>, T_5>>}, e \in SequenceEnvironments }
        \cup { Invocation("listdefault", a, EmptyEnv) : a \in ListVectors }

LaterInvocations ==
    { Invocation("top", <<T_t, T_1>>, EmptyEnv),
      Invocation("top", <<T_a>>, EmptyEnv),
      Invocation("top", <<T_2nd, T_m, T_2, T_foo>>, EmptyEnv),
      Invocation("basic", <<T_string, T_sb>>, EmptyEnv),
      Invocation("envstring", <<>>, [EmptyEnv EXCEPT !["ENV_DEFAULT"] = EmptyValue]),
      Invocation("envstring", <<>>, [EmptyEnv EXCEPT !["STACKED_DEFAULT"] = SetTo(T_foo)]),
      Invocation("defaults", <<T_d, T_2>>, EmptyEnv),
      Invocation("defaults", <<>>, [EmptyEnv EXCEPT !["ENV_DEFAULT"] = SetTo(T_2)]),
      Invocation("defaults", <<>>, EmptyEnv),
      Invocation("listdefault", <<>>, EmptyEnv) }

\* the first Decode call of the program
DecodeFirst ==
    /\ pc = "idle"
    /\ \E inv \in FirstInvocations :
          DecodeCall(inv, validate(tree, inv.root), setDefaults(inv.root, dest, inv.env))

\* another Decode call after one that returned
DecodeLater ==
    /\ pc = "done"
    /\ decodes < MaxDecodes
    /\ \E inv \in LaterInvocations :
          DecodeCall(inv, validate(tree, inv.root), setDefaults(inv.root, dest, inv.env))

SequenceNext ==
    \/ DecodeFirst
    \/ DecodeLater
    \/ MatchSubcommand
    \/ BareDash
    \/ Terminator
    \/ MatchOption
    \/ Positional
    \/ Return

SequenceSpec == Init /\ [][SequenceNext]_vars

\* one iteration of parseArgs' loop, or its return: whichever of
\* MatchSubcommand, BareDash, Terminator, MatchOption, Positional and Return
\* the scan position calls for
ScanStep ==
    /\ pc = "scan"
    /\ \E s \in {LoopStep(Cur)} : Apply(s)
    /\ UNCHANGED inputs

\* argument vectors with empty tokens, clusters and every kind of token
TerminationVectors ==
    SeqsUpTo({T_mid, DashDash, T_a, T_t, T_empty}, MaxTokens) \cup ClusterVectors
        \cup TailVectors
        \cup { <<>>,
               <<T_empty>>,
               <<T_empty, T_empty, T_a>>,
               <<T_1>>,
               <<Dash>>,
               <<DashDash>>,
               <<T_a, T_empty>>,
               <<T_t, T_empty>>,
               <<T_t, T_1, T_t, T_1>>,
               <<T_mid, T_foo, T_bottom>>,
               <<T_foo, DashDash, T_t, T_mid>>,
               <<T_t>>,
               <<T_x, T_1, T_mid, T_x, T_2>>,
               << <<"-", "a", "f">>, <<"-", "a", "f">> >>,
               << <<"-", "z">> >> }

\* the Decode call, on top
DecodeTop ==
    /\ pc = "idle"
    /\ \E a \in TerminationVectors :
          DecodeCall(Invocation("top", a, EmptyEnv), validate(tree, "top"),
                     setDefaults("top", dest, EmptyEnv))

TerminationNext ==
    \/ DecodeTop
    \/ MatchSubcommand
    \/ BareDash
    \/ Terminator
    \/ MatchOption
    \/ Positional
    \/ Return

\* a Decode call that has started keeps running: parseArgs is sequential
\* code that waits for nothing
TerminationSpec == Init /\ [][TerminationNext]_vars /\ WF_vars(ScanStep)

----------------------------------------------------------------------------
(* Decode called on top by two goroutines at the same time.  Each call has *)
(* its own locals; the destinations are the fields of one spec value and   *)
(* are shared.  The calls interleave between loop iterations.  Nothing     *)
(* orders a decoder's read of its destination with the other call's        *)
(* writes, so a decoder may compute from the destinations as they are or   *)
(* from those its goroutine saw at its previous step, and it writes the    *)
(* destination of its own option only.                                     *)

PairVectors ==
    { <<T_t, T_1, T_x, T_1>>,
      <<T_t, T_2, T_x, T_2>>,
      <<T_mid, T_foo>>,
      <<T_a, T_a>>,
      <<T_a>>,
      <<T_t, T_1, T_t, T_2>>,
      <<>> }

\* the locals of a call that a goroutine has just made with arguments a,
\* the destinations being d: validate and setDefaults have returned (top
\* has no option with a defaulter) and parseArgs is at its loop
ThreadStart_sharedSeen(a, d) ==
    [pc |-> "scan", orig |-> a, stale |-> d,
     s |-> [CommandDecode("top", a, d, EmptyEnv) EXCEPT
               !.seen = UNION { IF threads[u].pc = "idle" THEN {} ELSE threads[u].s.seen :
                                  u \in Threads }]]

ThreadStart(a, d) ==
    [pc |-> "scan", orig |-> a, stale |-> d, s |-> CommandDecode("top", a, d, EmptyEnv)]

\* the destinations after a step that took the scan state from m to n: a
\* decoder that the step invoked and that returned nil has written the
\* destination of its option
Written(d, m, n) ==
    IF Len(n.calls) > Len(m.calls)
          /\ DecoderDecode(n.calls[Len(n.calls)][1], n.calls[Len(n.calls)][2],
                           m.dest, <<>>).err = NoErr
    THEN [d EXCEPT ![n.calls[Len(n.calls)][1]] = n.dest[n.calls[Len(n.calls)][1]]]
    ELSE d

\* goroutine t after an iteration of its loop (or the return) that took
\* its scan state from m to n
ThreadStepped(t, m, n) ==
    /\ dest' = Written(dest, m, n)
    /\ threads' = [threads EXCEPT ![t] = [pc |-> n.pc, orig |-> threads[t].orig,
                                          stale |-> Written(dest, m, n), s |-> n]]

\* everything but the destinations and the goroutines' calls
serial == <<pc, root, env, origArgs, callerArgs, aliased, args, origin, i, path,
            positional, made, seen, parseCmd, parseOpt, err, entry, calls, log,
            panicked, defaulted, decodes, tree, built, target, verdicts>>

\* a goroutine calls top.Decode(a)
ThreadDecode ==
    /\ \E t \in Threads : \E a \in PairVectors :
          /\ threads[t].pc = "idle"
          /\ threads' = [threads EXCEPT ![t] = ThreadStart(a, dest)]
    /\ UNCHANGED <<serial, dest>>

\* a goroutine runs one iteration of its loop, or returns
ThreadStep ==
    /\ \E t \in Threads :
          /\ threads[t].pc = "scan"
          /\ \E d \in {dest, threads[t].stale} :
                \E n \in {LoopStep([threads[t].s EXCEPT !.dest = d])} :
                    ThreadStepped(t, [threads[t].s EXCEPT !.dest = d], n)
    /\ UNCHANGED serial

ConcurrentNext ==
    \/ ThreadDecode
    \/ ThreadStep

ConcurrentSpec == Init /\ [][ConcurrentNext]_vars

----------------------------------------------------------------------------
(* Properties *)

RoleIndices(roles) == {k \in 1..Len(log) : log[k].role \in roles}

\* the tokens the history says went to positional, in order
RECURSIVE LogPositional(_)
LogPositional(n) ==
    IF n = 0 THEN <<>>
    ELSE IF log[n].role \in {"positional", "dash"}
    THEN Append(LogPositional(n - 1), log[n].tok)
    ELSE LogPositional(n - 1)

\* the commands the history says were appended to Path, after the root
RECURSIVE LogPath(_)
LogPath(n) ==
    IF n = 0 THEN <<root>>
    ELSE IF log[n].role = "subcommand"
    THEN Append(LogPath(n - 1), Subcommand(Last(LogPath(n - 1)), log[n].tok))
    ELSE LogPath(n - 1)

\* the history agrees with what parseArgs holds
LogAgrees ==
    pc # "idle" => positional = LogPositional(Len(log)) /\ path = LogPath(Len(log))

\* Decode on top returned, for the argument vector a
Returned(a) == pc = "done" /\ root = "top" /\ origArgs = a

\* Decode on the command c returned, for the argument vector a
ReturnedOn(c, a) == pc = "done" /\ root = c /\ origArgs = a

\* C1: once a token went to positional as an unmatched argument, no later
\* token is appended to Path, and a later token that names a subcommand of
\* Path.Last() goes to positional; ["mid","foo","bottom"] returns Path
\* [top, mid] and positional ["foo","bottom"].
C1_SubcommandPrefixRule ==
    /\ LogAgrees
    /\ \A j \in RoleIndices({"positional"}) : \A k \in (j + 1)..Len(log) :
          /\ log[k].role # "subcommand"
          /\ Subcommand(Last(path), log[k].tok) # NoCommand => log[k].role = "positional"
    /\ Returned(<<T_mid, T_foo, T_bottom>>) =>
          /\ err = NoErr
          /\ path = <<"top", "mid">>
          /\ positional = <<T_foo, T_bottom>>

C1_Witness ==
    /\ Returned(<<T_mid, T_foo, T_bottom>>)
    /\ log[2].role = "positional"
    /\ log[3].role = "positional"

\* C2: the first bare "--" scanned while option parsing is enabled is dropped,
\* and every later token goes to positional verbatim and in order: none is
\* matched as an option or subcommand, none reaches a decoder, and a later
\* "--" or "-" is positional too.
C2_Terminator ==
    /\ LogAgrees
    /\ \A k \in RoleIndices({"terminator"}) :
          LET p == log[k].pos
              rest == Len(args) - p
          IN  /\ log[k].tok = DashDash
              /\ Len(LogPositional(k)) = Len(LogPositional(k - 1))
              /\ LogPath(k) = LogPath(k - 1)
              /\ path = LogPath(k)
              /\ Len(calls) = log[k].ncalls
              /\ err = NoErr
              /\ SubSeq(args, p + 1, Len(args))
                    = SubSeq(origArgs, Len(origArgs) - rest + 1, Len(origArgs))
              /\ \A m \in (k + 1)..Len(log) :
                    /\ log[m].role = "positional"
                    /\ log[m].pos = p + (m - k)
                    /\ log[m].tok = args[log[m].pos]
              /\ positional = LogPositional(k) \o SubSeq(args, p + 1, p + Len(log) - k)
              /\ pc = "done" => Len(log) - k = rest

C2_Witness ==
    /\ Returned(<<T_mid, DashDash, T_bottom, DashDash, T_b, <<"3">>>>)
    /\ positional = <<T_bottom, DashDash, T_b, <<"3">>>>

T_subcmd == <<"s", "u", "b", "c", "m", "d">>
TerminatorArgs == << <<"a">>, DashDash, T_b, T_subcmd >>

\* C3 as claimed: ["a","--","-b","subcmd"] succeeds with positional exactly
\* ["-b","subcmd"].
C3_Original ==
    Returned(TerminatorArgs) => err = NoErr /\ positional = <<T_b, T_subcmd>>

\* C3 as amended: for ["a","--","-b","subcmd"], where "a" names no subcommand
\* of the root, Decode succeeds with positional ["a","-b","subcmd"]: the token
\* before "--" is positional too, and the two tokens after it are appended
\* verbatim with no option or subcommand matching; likewise for
\* ["foo","--","-t","mid"], where -t is an option and mid a subcommand of the
\* root.
C3_TerminatorExample ==
    /\ Returned(TerminatorArgs) =>
          /\ err = NoErr
          /\ positional = << <<"a">>, T_b, T_subcmd >>
          /\ path = <<"top">>
          /\ calls = <<>>
          /\ seen = {}
          /\ log[3].role = "positional" /\ log[4].role = "positional"
    /\ Returned(<<T_foo, DashDash, T_t, T_mid>>) =>
          /\ err = NoErr
          /\ positional = <<T_foo, T_t, T_mid>>
          /\ path = <<"top">>
          /\ calls = <<>>
          /\ seen = {}
          /\ log[3].role = "positional" /\ log[4].role = "positional"

C3_Witness == Returned(TerminatorArgs) /\ Len(log) = 4 /\ Len(positional) = 3

\* the option name a token carries: up to the first "=" of a long token, the
\* first character of a short one
TokenName(tok) ==
    IF HasPrefix(tok, DashDash) THEN SplitEq(TrimPrefix(tok, DashDash))[1]
    ELSE SubSeq(tok, 2, 2)

DeclaresName(c, n) ==
    \E o \in Range(Commands[c].Options) : n \in Range(Options[o].Names)

\* the commands of p that declare an option named n, as indices into p
Declaring(p, n) == {d \in 1..Len(p) : DeclaresName(p[d], n)}

Max(S) == CHOOSE x \in S : \A y \in S : y <= x

\* C4: an option token is resolved against the Path as it stands when the
\* token is scanned, nearest command first: the option belongs to the last
\* command of that Path that declares the name.  With x on top and mid,
\* ["--x","1","mid"] invokes only top's decoder and ["mid","--x","1"] only
\* mid's.
C4_OptionScoping ==
    /\ LogAgrees
    /\ \A k \in RoleIndices({"option"}) :
          LET p == LogPath(k)
              n == TokenName(log[k].tok)
          IN  IF Declaring(p, n) = {}
              THEN log[k].opt = NoOption
              ELSE /\ log[k].opt \in Range(Commands[p[Max(Declaring(p, n))]].Options)
                   /\ n \in Range(Options[log[k].opt].Names)
    /\ Returned(<<T_xx, T_1, T_mid>>) =>
          /\ err = NoErr
          /\ calls = << <<"TopX", T_1>> >>
          /\ dest.TopX = 1 /\ dest.MidX = 0
          /\ path = <<"top", "mid">>
    /\ Returned(<<T_mid, T_xx, T_1>>) =>
          /\ err = NoErr
          /\ calls = << <<"MidX", T_1>> >>
          /\ dest.MidX = 1 /\ dest.TopX = 0
          /\ path = <<"top", "mid">>

C4_Witness == Returned(<<T_mid, T_xx, T_1>>) /\ dest.MidX = 1 /\ log[2].opt = "MidX"

\* the dash prefix of an option token
TokenPrefix(tok) == IF HasPrefix(tok, DashDash) THEN DashDash ELSE Dash

\* C5: an option token whose name is declared in the tree, but by no command
\* of the Path as it stands, makes Decode return the 'is not recognized'
\* error naming the option, with no decoder invoked for the token.
\* ["-m","2","mid"] and ["mid","-b","3","bottom"] fail, ["mid","-m","2"]
\* succeeds.
C5_SubcommandOptionNotVisible ==
    /\ LogAgrees
    /\ \A k \in RoleIndices({"option"}) :
          LET n == TokenName(log[k].tok) IN
          ((\E c \in CommandIds : DeclaresName(c, n)) /\ Declaring(LogPath(k), n) = {})
             => /\ k = Len(log)
                /\ pc = "done"
                /\ err = Error("is not recognized", TokenPrefix(log[k].tok) \o n)
                /\ Len(calls) = log[k].ncalls
    /\ Returned(<<T_m, <<"2">>, T_mid>>) =>
          err = Error("is not recognized", T_m) /\ calls = <<>> /\ path = <<"top">>
    /\ Returned(<<T_midval, <<"2">>, T_mid>>) =>
          err = Error("is not recognized", T_midval) /\ calls = <<>> /\ path = <<"top">>
    /\ Returned(<<T_mid, T_b, <<"3">>, T_bottom>>) =>
          err = Error("is not recognized", T_b) /\ calls = <<>> /\ path = <<"top", "mid">>
    /\ Returned(<<T_mid, T_m, <<"2">>>>) =>
          err = NoErr /\ calls = << <<"Mid", <<"2">>>> >> /\ dest.Mid = 2

C5_Witness ==
    /\ Returned(<<T_mid, T_b, <<"3">>, T_bottom>>)
    /\ err.kind = "is not recognized"
    /\ log[2].opt = NoOption

\* the Path when iteration k of the loop began
PathBefore(k) == LogPath(k - 1)

\* C6: option tokens and the arguments they consume do not end subcommand
\* matching: when every iteration so far matched a subcommand or processed an
\* option, a token naming a subcommand of Path.Last() is appended to Path.
\* ["-t","1","mid","bottom"] and ["mid","-t","1","bottom"] both return Path
\* [top, mid, bottom] with Top = 1.
C6_OptionsKeepSubcommandMatching ==
    /\ LogAgrees
    /\ \A k \in 1..Len(log) :
          ( /\ \A j \in 1..(k - 1) : log[j].role \in {"subcommand", "option"}
            /\ Subcommand(Last(PathBefore(k)), log[k].tok) # NoCommand )
          => /\ log[k].role = "subcommand"
             /\ LogPath(k) = Append(PathBefore(k), Subcommand(Last(PathBefore(k)), log[k].tok))
    /\ (pc = "scan" /\ i <= Len(args) /\ RoleIndices({"subcommand", "option"}) = 1..Len(log))
          => parseCmd
    /\ Returned(<<T_t, T_1, T_mid, T_bottom>>) =>
          err = NoErr /\ path = <<"top", "mid", "bottom">> /\ dest.Top = 1 /\ positional = <<>>
    /\ Returned(<<T_mid, T_t, T_1, T_bottom>>) =>
          err = NoErr /\ path = <<"top", "mid", "bottom">> /\ dest.Top = 1 /\ positional = <<>>

C6_Witness ==
    /\ Returned(<<T_mid, T_t, T_1, T_bottom>>)
    /\ log[2].role = "option"
    /\ log[3].role = "subcommand"
    /\ path = <<"top", "mid", "bottom">>

\* C7 as claimed: the first token that is not a subcommand name disables
\* subcommand matching for good, so the tokens appended to Path are an
\* unbroken run at the start of args.
C7_Original ==
    /\ \A j \in 1..Len(log) : \A k \in (j + 1)..Len(log) :
          log[j].role # "subcommand" => log[k].role # "subcommand"
    /\ \A k \in RoleIndices({"subcommand"}) : log[k].src = k

\* C7 as amended: the first token that is a bare "-", a bare "--" or an
\* unmatched positional argument disables subcommand matching for good; option
\* tokens and the arguments they consume do not.  So the tokens appended to
\* Path are an unbroken run at the start of args once option tokens and their
\* consumed arguments are left out: every token scanned before a matched
\* subcommand is a matched subcommand or an option token.
C7_SubcommandPrefix ==
    /\ LogAgrees
    /\ \A j \in RoleIndices({"dash", "terminator", "positional"}) :
          /\ \A k \in (j + 1)..Len(log) : log[k].role # "subcommand"
          /\ pc = "scan" => ~parseCmd
          /\ path = LogPath(j)
    /\ \A k \in RoleIndices({"subcommand"}) :
          /\ \A j \in 1..(k - 1) : log[j].role \in {"subcommand", "option"}
          /\ log[k].src > 0
          /\ log[k].tok = origArgs[log[k].src]

C7_Witness ==
    /\ pc = "done"
    /\ \E j \in RoleIndices({"option"}) : \E k \in RoleIndices({"subcommand"}) : j < k
    /\ \E j \in RoleIndices({"dash"}) : \E k \in (j + 1)..Len(log) :
          Subcommand(Last(path), log[k].tok) # NoCommand

DashExample == <<Dash, T_t, T_1, DashDash, T_mid>>

\* an option token: begins with "-" and is neither "-" nor "--"
IsOptionToken(tok) == HasPrefix(tok, Dash) /\ tok # Dash /\ tok # DashDash

\* C8: a bare "-" scanned while option parsing is enabled is appended to
\* positional and disables subcommand matching for good, but not option
\* matching: a later option token, with no "--" in between, is still
\* processed as an option.  ["-","-t","1","--","mid"] returns Path [top],
\* positional ["-","mid"] and Top = 1.
C8_BareDash ==
    /\ LogAgrees
    /\ \A k \in RoleIndices({"dash"}) :
          /\ log[k].tok = Dash
          /\ LogPositional(k) = Append(LogPositional(k - 1), Dash)
          /\ path = PathBefore(k)
          /\ \A m \in (k + 1)..Len(log) :
                /\ log[m].role # "subcommand"
                /\ (IsOptionToken(log[m].tok) /\ RoleIndices({"terminator"}) \cap 1..m = {})
                      => log[m].role = "option"
          /\ (pc = "scan" /\ RoleIndices({"terminator"}) = {}) => parseOpt /\ ~parseCmd
    /\ \A k \in 1..Len(log) :
          (log[k].tok = Dash /\ RoleIndices({"terminator"}) \cap 1..k = {})
             => log[k].role = "dash"
    /\ Returned(DashExample) =>
          /\ err = NoErr
          /\ path = <<"top">>
          /\ positional = <<Dash, T_mid>>
          /\ dest.Top = 1
          /\ calls = << <<"Top", T_1>> >>

C8_Witness ==
    /\ Returned(DashExample)
    /\ log[1].role = "dash"
    /\ log[2].role = "option"
    /\ dest.Top = 1

AccumulatorCall == <<"Accumulator", <<>>>>

\* C9: for the plural flag a and every n >= 1, the single token "-" followed
\* by n copies of a invokes the flag's decoder exactly n times and returns
\* the same Path, positional, error and destinations as n separate "-a"
\* tokens; ["-aaa"] leaves 3 in the accumulator, as ["-a","-a","-a"] does.
C9_ShortCluster ==
    /\ \A n \in 1..MaxCluster :
          /\ Returned(<<Cluster(n)>>) =>
                /\ calls = Copies(AccumulatorCall, n)
                /\ dest.Accumulator = n
                /\ path = DecodeResult(Copies(T_a, n)).path
                /\ positional = DecodeResult(Copies(T_a, n)).positional
                /\ err = DecodeResult(Copies(T_a, n)).err
                /\ dest = DecodeResult(Copies(T_a, n)).dest
          /\ Returned(Copies(T_a, n)) =>
                /\ calls = Copies(AccumulatorCall, n)
                /\ dest = [ZeroDest EXCEPT !.Accumulator = n]
                /\ err = NoErr /\ path = <<"top">> /\ positional = <<>>
    /\ Returned(<<<<"-", "a", "a", "a">>>>) => dest.Accumulator = 3 /\ err = NoErr
    /\ Returned(<<T_a, T_a, T_a>>) => dest.Accumulator = 3 /\ err = NoErr

C9_Witness ==
    /\ Returned(<<<<"-", "a", "a", "a">>>>)
    /\ dest.Accumulator = 3
    /\ Len(log) = 3
    /\ args = <<T_a, T_a, T_a>>

\* C10: for the option o/opt and every non-empty argument X, the forms
\* ["--opt=X"], ["--opt","X"], ["-oX"] and ["-o","X"] each invoke the option's
\* decoder exactly once, with exactly X, and return the same Path, positional
\* and error.
C10_ArgumentAttachment ==
    \A X \in ArgValues : \A f \in AttachForms(X) :
        Returned(f) =>
            /\ calls = << <<"CustomOption", X>> >>
            /\ path = <<"top">>
            /\ positional = <<>>
            /\ err.kind \in {"nil", "customTestOption values must begin with foo"}
            /\ err = NoErr <=> HasPrefix(X, T_foo)
            /\ err = NoErr => dest.CustomOption = X
            /\ \A g \in AttachForms(X) :
                  /\ DecodeResult(g).calls = calls
                  /\ DecodeResult(g).path = path
                  /\ DecodeResult(g).positional = positional
                  /\ DecodeResult(g).err = err
                  /\ DecodeResult(g).dest = dest

C10_Witness ==
    /\ Returned(<<LongInline(<<"f", "o", "o", "=", "1">>)>>)
    /\ calls = << <<"CustomOption", <<"f", "o", "o", "=", "1">>>> >>
    /\ dest.CustomOption = <<"f", "o", "o", "=", "1">>

\* iteration k of the loop resolved its token to a non-plural option that an
\* earlier iteration of the same call had resolved a token to
SecondOccurrence(k) ==
    /\ log[k].role = "option"
    /\ log[k].opt # NoOption
    /\ ~Options[log[k].opt].Plural
    /\ \E j \in 1..(k - 1) : log[j].role = "option" /\ log[j].opt = log[k].opt

\* the errors an occurrence gives by itself: a malformed token or an argument
\* its decoder rejects
OwnErrors ==
    { "does not accept an argument", "requires an argument", "invalid syntax",
      "customTestOption values must begin with foo", "is not in key=value format",
      "would overflow" }

TooManyTimes == "specified too many times"

\* the decoder of option opt returns nil for the argument arg
Accepts(opt, arg) == DecoderDecode(opt, arg, ZeroDest, <<>>).err = NoErr

\* the loop's last iteration invoked a decoder, and the decoder returned nil
LastDecoded ==
    /\ Len(calls) = log[Len(log)].ncalls + 1
    /\ Accepts(calls[Len(calls)][1], calls[Len(calls)][2])

CallsOf(opt) == SelectSeq(calls, LAMBDA c : c[1] = opt)

\* the invocations of the map decoder that wrote a key
MapWrites ==
    SelectSeq(calls, LAMBDA c : c[1] = "StringMap" /\ Len(SplitEq(c[2])) = 2)

\* the map holding, for each key written, the value of the last write
LastWritten ==
    [key \in {SplitEq(MapWrites[j][2])[1] : j \in 1..Len(MapWrites)} |->
        SplitEq(MapWrites[Max({j \in 1..Len(MapWrites) :
                                  SplitEq(MapWrites[j][2])[1] = key})][2])[2]]

\* the number of decoder invocations when iteration k ended
CallsAfter(k) == IF k = Len(log) THEN Len(calls) ELSE log[k + 1].ncalls

C13_RepetitionErrorToken ==
    err.kind = TooManyTimes =>
        /\ pc = "done"
        /\ i > 1
        /\ i = log[Len(log)].pos
        /\ err.tok = args[i]
        /\ IF HasPrefix(log[Len(log)].tok, DashDash)
              \/ ~Options[log[Len(log)].opt].Flag
           THEN err.tok = log[Len(log)].tok
           ELSE err.tok = SubSeq(log[Len(log)].tok, 1, 2)
        /\ Returned(<<T_f, T_foo, <<"-", "f", "a">>, T_mid>>) => err.tok = T_f
        /\ Returned(<<T_a, <<"-", "a", "f", "a", "f">> >>) => err.tok = T_f
        /\ Returned(<< <<"-", "f", "f", "f">> >>) => err.tok = T_f
        /\ Returned(<< <<"-", "t", "1">>, T_topval \o <<"=", "2">> >>) =>
              err.tok = T_topval \o <<"=", "2">>
        /\ Returned(<<LongName, T_foobar, ShortName, T_foobar>>) => err.tok = ShortName

C13_Witness ==
    /\ Returned(<<T_f, T_foo, <<"-", "f", "a">>, T_mid>>)
    /\ err = Error(TooManyTimes, T_f)
    /\ log[Len(log)].tok = <<"-", "f", "a">>

\* the option does not occur on the command line: the loop resolved no token to it
NotGiven(opt) == \A k \in 1..Len(log) : log[k].opt # opt

\* the environment variable of option opt is set and its value decodes
EnvValid(opt) ==
    Getenv(env, EnvKeys[opt]) # <<>> /\ ParseInt(Getenv(env, EnvKeys[opt])).ok

Defaulted == DOMAIN DefaultArgs \cup DOMAIN EnvKeys

\* the destinations after the decoder of opt was given, in order, the
\* arguments of the invocations cs, starting from d
RECURSIVE DecodeAll(_, _, _)
DecodeAll(opt, cs, d) ==
    IF cs = <<>> THEN d
    ELSE DecodeAll(opt, Tail(cs), DecoderDecode(opt, Head(cs)[2], d, <<>>).dest)

\* what decoding the command-line arguments of opt alone gives
DecodeAlone(opt) == DecodeAll(opt, CallsOf(opt), ZeroDest)[opt]

\* C15: for every option with a static and/or environment default that
\* occurs on the command line with an argument its decoder accepts, the
\* destination after a successful Decode equals what decoding the
\* command-line argument alone gives, whatever the default and the
\* environment are.
C15_CommandLineOverridesDefaults ==
    (pc = "done" /\ err = NoErr) =>
        \A opt \in Defaulted :
            CallsOf(opt) # <<>> => dest[opt] = DecodeAlone(opt)

\* the slice positional is nil: never allocated and nothing appended
PositionalIsNil == ~made /\ positional = <<>>

\* C16: every return of Decode, with or without an error, gives a Path of
\* length >= 1 whose first element is the Command Decode was called on (the
\* root of a tree or a subcommand), and a positional slice that is not nil,
\* also when it is empty.
C16_PathAndPositionalPresent ==
    pc = "done" =>
        /\ Len(path) >= 1
        /\ path[1] = root
        /\ ~PositionalIsNil

C16_Witness ==
    /\ ReturnedOn("mid", <<T_t, T_1>>)
    /\ err.kind = "is not recognized"
    /\ path = <<"mid">>
    /\ positional = <<>>
    /\ made

\* the indices of the loop iterations that matched a subcommand, in order
RECURSIVE SubcommandEntries(_)
SubcommandEntries(n) ==
    IF n = 0 THEN <<>>
    ELSE IF log[n].role = "subcommand" THEN Append(SubcommandEntries(n - 1), n)
    ELSE SubcommandEntries(n - 1)

\* C17: when Decode returns an error, the failing token is the last one
\* scanned, and the Path is the root followed by exactly the subcommands
\* matched before it, in order, each a direct subcommand of its predecessor
\* named by its token; ["mid","--bogus"] returns the error with Path.Last()
\* the command mid, and a subcommand name after the failing token is not in
\* the Path.
C17_PathOnError ==
    /\ LogAgrees
    /\ (pc = "done" /\ err # NoErr) =>
          /\ log[Len(log)].role = "option"
          /\ log[Len(log)].pos = i
          /\ path[1] = root
          /\ Len(path) = 1 + Len(SubcommandEntries(Len(log)))
          /\ \A j \in 1..(Len(path) - 1) :
                /\ path[j + 1] \in Range(Commands[path[j]].Subcommands)
                /\ path[j + 1] = Subcommand(path[j], log[SubcommandEntries(Len(log))[j]].tok)
                /\ log[SubcommandEntries(Len(log))[j]].pos < i
    /\ Returned(<<T_mid, T_bogus>>) =>
          err = Error("is not recognized", T_bogus) /\ Last(path) = "mid"
    /\ Returned(<<T_bogus, T_mid>>) =>
          err = Error("is not recognized", T_bogus) /\ path = <<"top">>
    /\ Returned(<<T_a, T_t, T_1, T_mid, T_m, T_foo, T_bottom>>) =>
          err = Error("invalid syntax", T_foo) /\ path = <<"top", "mid">>
    /\ ReturnedOn("mid", <<T_bottom, T_bogus>>) =>
          err = Error("is not recognized", T_bogus) /\ path = <<"mid", "bottom">>

C17_Witness ==
    /\ Returned(<<T_mid, T_bogus>>)
    /\ err.kind = "is not recognized"
    /\ path = <<"top", "mid">>

\* the destinations after the invocations cs, in order, starting from d
RECURSIVE Replay(_, _)
Replay(cs, d) ==
    IF cs = <<>> THEN d
    ELSE Replay(Tail(cs), DecoderDecode(Head(cs)[1], Head(cs)[2], d, <<>>).dest)

\* C18: the first failure of any kind makes Decode return at once: the
\* failing token is the last one scanned, no later token is scanned, and the
\* destinations hold the effect of every decoder invocation of the call, so
\* what options decoded earlier wrote is kept.  After ["-t","1","--bogus"]
\* the error is non-nil and Top is 1.
C18_NoRollback ==
    /\ err # NoErr =>
          /\ pc = "done"
          /\ log[Len(log)].pos = i
          /\ \A k \in 1..(Len(log) - 1) : log[k].pos < i
    /\ pc # "idle" => dest = Replay(calls, setDefaults(root, ZeroDest, env).dest)
    /\ Returned(<<T_t, T_1, T_bogus>>) =>
          err = Error("is not recognized", T_bogus) /\ dest.Top = 1
    /\ Returned(<<T_t, T_1, T_bogus, T_mid, T_m, T_2>>) =>
          /\ err = Error("is not recognized", T_bogus)
          /\ dest.Top = 1 /\ dest.Mid = 0
          /\ path = <<"top">>
          /\ Len(log) = 2
    /\ Returned(<<T_a, ShortName, T_foo, T_mid, <<"-", "a", "a", "m">> >>) =>
          /\ err = Error("requires an argument", T_m)
          /\ dest.Accumulator = 3 /\ dest.CustomOption = T_foo
    /\ Returned(<<T_f, T_foo, <<"-", "f", "a">>, T_mid>>) =>
          /\ err.kind = TooManyTimes
          /\ dest.CustomFlag /\ dest.Accumulator = 0
          /\ positional = <<T_foo>> /\ path = <<"top">>

C18_Witness ==
    /\ Returned(<<T_t, T_1, T_bogus, T_mid, T_m, T_2>>)
    /\ err # NoErr
    /\ dest.Top = 1
    /\ i = 2 /\ Len(args) = 5

\* C19: a long token that resolves to a flag and carries an inline argument
\* ("--flag=1", also the empty "--flag=") fails with 'does not accept an
\* argument' and the flag's decoder is not invoked; without an inline
\* argument the decoder is invoked once, with the empty string, and the
\* following token is not consumed: it is the next token scanned.
C19_FlagInlineArgument ==
    /\ LogAgrees
    /\ \A k \in RoleIndices({"option"}) :
          ( /\ HasPrefix(log[k].tok, DashDash)
            /\ log[k].opt # NoOption
            /\ Options[log[k].opt].Flag ) =>
              IF IndexOf(log[k].tok, "=") # 0
              THEN /\ k = Len(log)
                   /\ pc = "done"
                   /\ err = Error("does not accept an argument",
                                  DashDash \o TokenName(log[k].tok))
                   /\ Len(calls) = log[k].ncalls
              ELSE /\ CallsAfter(k) = log[k].ncalls + 1
                   /\ calls[CallsAfter(k)] = <<log[k].opt, <<>>>>
                   /\ k < Len(log) =>
                         /\ log[k + 1].pos = log[k].pos + 1
                         /\ log[k + 1].rest = log[k].rest - 1
                   /\ (k = Len(log) /\ pc = "scan") => Len(args) = log[k].pos + log[k].rest
    /\ Returned(<<T_flag \o <<"=", "1">> >>) =>
          err = Error("does not accept an argument", T_flag) /\ calls = <<>>
    /\ Returned(<<T_flag \o <<"=">> >>) =>
          err = Error("does not accept an argument", T_flag) /\ ~dest.CustomFlag
    /\ Returned(<<T_acc \o <<"=", "3">> >>) =>
          err = Error("does not accept an argument", T_acc) /\ dest.Accumulator = 0
    /\ Returned(<<T_flag, T_foo>>) =>
          /\ err = NoErr /\ dest.CustomFlag
          /\ calls = << <<"CustomFlag", <<>>>> >>
          /\ positional = <<T_foo>>
    /\ Returned(<<T_flag, T_mid, T_bottom>>) =>
          err = NoErr /\ dest.CustomFlag /\ path = <<"top", "mid", "bottom">>
    /\ Returned(<<T_acc, T_1, T_acc>>) =>
          err = NoErr /\ dest.Accumulator = 2 /\ positional = <<T_1>>

C19_Witness ==
    /\ Returned(<<T_flag \o <<"=">>, T_mid>>)
    /\ err = Error("does not accept an argument", T_flag)
    /\ calls = <<>>
    /\ path = <<"top">>

\* the token names an option and carries no argument: "--name" or "-c"
NoInlineArgument(tok) ==
    IF HasPrefix(tok, DashDash) THEN IndexOf(tok, "=") = 0 ELSE Len(tok) = 2

\* C20: a token that resolves to a non-flag option, carries no inline
\* argument and no short-form tail, and is the last element of args makes
\* Decode return 'requires an argument' naming the option, with the option's
\* decoder not invoked; the error arises in no other case.  ["-o"] and
\* ["--opt"] fail so, ["-o","--"] does not.
C20_RequiresArgument ==
    /\ \A k \in RoleIndices({"option"}) :
          ( /\ log[k].opt # NoOption
            /\ ~Options[log[k].opt].Flag
            /\ NoInlineArgument(log[k].tok)
            /\ log[k].rest = 0 ) =>
              /\ k = Len(log)
              /\ pc = "done"
              /\ err = Error("requires an argument", log[k].tok)
              /\ Len(calls) = log[k].ncalls
              /\ Len(args) = log[k].pos
    /\ err.kind = "requires an argument" =>
          /\ log[Len(log)].rest = 0
          /\ log[Len(log)].opt # NoOption
          /\ ~Options[log[Len(log)].opt].Flag
          /\ NoInlineArgument(log[Len(log)].tok)
    /\ Returned(<<ShortName>>) => err = Error("requires an argument", ShortName) /\ calls = <<>>
    /\ Returned(<<LongName>>) => err = Error("requires an argument", LongName) /\ calls = <<>>
    /\ Returned(<<T_foo, ShortName>>) =>
          err = Error("requires an argument", ShortName) /\ positional = <<T_foo>>
    /\ Returned(<<T_a, T_mid, T_midval>>) =>
          err = Error("requires an argument", T_midval) /\ dest.Accumulator = 1
    /\ ReturnedOn("mapslice", <<T_s, <<>>, T_m>>) =>
          err = Error("requires an argument", T_m) /\ dest.StringSlice = << <<>> >>
    /\ Returned(<<ShortName, DashDash>>) =>
          /\ err.kind = "customTestOption values must begin with foo"
          /\ calls = << <<"CustomOption", DashDash>> >>
    /\ Returned(<<LongName, LongName>>) =>
          calls = << <<"CustomOption", LongName>> >>

C20_Witness ==
    /\ Returned(<<T_a, T_mid, T_midval>>)
    /\ err = Error("requires an argument", T_midval)
    /\ calls = << <<"Accumulator", <<>>>> >>
    /\ path = <<"top", "mid">>

\* history entry k resolved a non-flag option whose token carries no inline
\* argument and is not the last element of args
ConsumesNext(k) ==
    /\ log[k].role = "option"
    /\ log[k].opt # NoOption
    /\ ~Options[log[k].opt].Flag
    /\ NoInlineArgument(log[k].tok)
    /\ log[k].rest > 0

\* the index in the caller's slice of the token after the one of entry k
NextSource(k) == 1 + Max({log[m].src : m \in 1..k})

\* C21: when a non-flag option without inline argument consumes the next
\* token, the decoder is invoked with exactly that token, whatever it looks
\* like, and the token is never scanned: no loop iteration is spent on it,
\* it is no longer in args, option parsing is ended only by a scanned "--",
\* and Path and positional hold only what scanned tokens put there.
C21_ConsumedTokenVerbatim ==
    /\ \A k \in 1..Len(log) :
          ConsumesNext(k) =>
              LET j == NextSource(k) IN
              /\ j <= Len(origArgs)
              /\ Len(calls) > log[k].ncalls
              /\ calls[log[k].ncalls + 1] = <<log[k].opt, origArgs[j]>>
              /\ \A m \in 1..Len(log) : log[m].src # j
              /\ \A m \in 1..Len(origin) : origin[m] # j
    /\ pc # "idle" => /\ parseOpt = (RoleIndices({"terminator"}) = {})
                      /\ positional = LogPositional(Len(log))
                      /\ path = LogPath(Len(log))

C21_Witness ==
    /\ ReturnedOn("basic", <<T_string, DashDash, T_int8, T_5>>)
    /\ err = NoErr
    /\ calls = << <<"String", DashDash>>, <<"Int8", T_5>> >>
    /\ dest["String"] = DashDash
    /\ dest["Int8"] = 5
    /\ positional = <<>>

\* Decode returned on the basic field spec for one occurrence of the integer
\* option tok with argument v, alone (twice = FALSE) or after an occurrence
\* that decoded 5
IntDecoded(tok, v, twice) ==
    /\ pc = "done"
    /\ root = "basic"
    /\ origArgs = IF twice THEN <<tok, T_5, tok, v>> ELSE <<tok, v>>

\* what Decode leaves for the integer option opt given the argument of an
\* occurrence: accepted, the value is stored (and a second occurrence is then
\* reported as a repetition); rejected, the destination is as it was before
IntOutcome(opt, twice, accepted, n) ==
    IF accepted
    THEN /\ dest[opt] = n
         /\ IF twice THEN err.kind = "specified too many times" ELSE err = NoErr
    ELSE /\ err \notin {NoErr}
         /\ err.kind \in {"would overflow", "invalid syntax"}
         /\ dest[opt] = IF twice THEN 5 ELSE 0

\* C30: decoding a decimal numeral into the int8 destination succeeds
\* exactly for the values -128..127 and stores the value; a value outside the
\* range or a string that is no decimal integer gives an error and leaves the
\* destination as it was (no wrap-around modulo 2^8).  The uint8 decoder
\* accepts exactly 0..255.
C30_EightBitRange ==
    (pc = "done" /\ root = "basic" /\ Len(origArgs) \in {2, 4}) =>
        \A twice \in BOOLEAN :
            /\ \A n \in Numbers :
                  /\ IntDecoded(T_int8, Itoa(n), twice) =>
                        IntOutcome("Int8", twice, n >= -128 /\ n <= 127, n)
                  /\ IntDecoded(T_uint8, Itoa(n), twice) =>
                        IntOutcome("Uint8", twice, n >= 0 /\ n <= 255, n)
            /\ \A v \in NonNumerals :
                  /\ IntDecoded(T_int8, v, twice) => IntOutcome("Int8", twice, FALSE, 0)
                  /\ IntDecoded(T_uint8, v, twice) => IntOutcome("Uint8", twice, FALSE, 0)

C30_Witness ==
    /\ IntDecoded(T_int8, <<"1", "2", "8">>, TRUE)
    /\ err = Error("would overflow", <<"1", "2", "8">>)
    /\ dest["Int8"] = 5
    /\ calls = << <<"Int8", T_5>>, <<"Int8", <<"1", "2", "8">> >> >>

\* the position of the first '=' of s, 0 if s has none
FirstEq(s) ==
    IF \E p \in 1..Len(s) : s[p] = "="
    THEN CHOOSE p \in 1..Len(s) : s[p] = "=" /\ \A q \in 1..(p - 1) : s[q] # "="
    ELSE 0

\* the map after the first n decoder invocations, when every invocation of
\* the map decoder with an argument that has a '=' writes the text before
\* the first '=' as key and the text after it as value, and every other
\* invocation leaves the map alone
RECURSIVE MapAfter(_)
MapAfter(n) ==
    IF n = 0 THEN <<>>
    ELSE LET prev == MapAfter(n - 1)
             arg == calls[n][2]
             p == FirstEq(arg)
             key == SubSeq(arg, 1, p - 1)
         IN  IF calls[n][1] # "StringMap" \/ p = 0 THEN prev
             ELSE [k \in DOMAIN prev \cup {key} |->
                      IF k = key THEN SubSeq(arg, p + 1, Len(arg)) ELSE prev[k]]

\* C29: the map decoder splits its argument at the first '=' only, writes
\* the entry of that key and leaves every other key as it was; an argument
\* without '=' fails with the map untouched.  [-m a=b=c] gives {a: b=c} and
\* [-m a=b, -m a=c] gives {a: c}.
C29_MapDecoding ==
    (root = "mapslice" /\ pc # "idle") =>
        /\ dest.StringMap = MapAfter(Len(calls))
        /\ \A n \in 1..Len(calls) :
              (calls[n][1] = "StringMap" /\ FirstEq(calls[n][2]) = 0) =>
                  /\ n = Len(calls)
                  /\ pc = "done"
                  /\ err = Error("is not in key=value format", calls[n][2])
        /\ ReturnedOn("mapslice", <<T_m, <<"a", "=", "b", "=", "c">> >>) =>
              err = NoErr /\ dest.StringMap = [key \in {<<"a">>} |-> <<"b", "=", "c">>]
        /\ ReturnedOn("mapslice", <<T_m, <<"a", "=", "b">>, <<"-", "m", "c", "=", "d">>,
                                    T_m, <<"a", "=", "c">> >>) =>
              /\ err = NoErr
              /\ dest.StringMap = [key \in {<<"a">>, <<"c">>} |->
                                      IF key = <<"a">> THEN <<"c">> ELSE <<"d">>]

C29_Witness ==
    /\ ReturnedOn("mapslice", <<T_m, <<"a", "=", "b", "=", "c">>, T_m, <<"a">> >>)
    /\ err = Error("is not in key=value format", <<"a">>)
    /\ dest.StringMap = [key \in {<<"a">>} |-> <<"b", "=", "c">>]
    /\ Len(calls) = 2

\* a name that is empty, begins with '-' or has a whitespace character
BadName(n) ==
    \/ n = <<>>
    \/ n[1] = "-"
    \/ \E k \in 1..Len(n) : n[k] \in {" ", "\t", "\n"}

\* an Option without names, with a bad name or without Decoder
InvalidOption(o) ==
    \/ Len(o.Names) = 0
    \/ \E k \in 1..Len(o.Names) : BadName(o.Names[k])
    \/ o.Decoder = NoDecoder

\* C22: Option.validate panics, with an optionError, if and only if the
\* option has no names, or one of its names is empty, begins with '-' or has
\* a whitespace character at any position, or its Decoder is unset.
C22_OptionValidate ==
    target.kind = "Option" =>
        \A k \in 1..Len(verdicts) :
            /\ (verdicts[k] # NoPanic) <=> InvalidOption(built.opts[target.id])
            /\ verdicts[k] # NoPanic => verdicts[k].type = "optionError"

C22_Witness ==
    /\ target = [kind |-> "Option", id |-> "option"]
    /\ built = SetNames(SampleTree, "option", << <<"a", "\t", "b">> >>)
    /\ verdicts = << panicOption("Option names cannot have spaces", <<"a", "\t", "b">>) >>

\* the aliases of the Command c of the tree t
AliasesOf(t, c) == SliceElems(t.arrays, t.cmds[c].Aliases)

\* C23: Command.validate rejects a Command whose name is empty, begins
\* with '-' or has a whitespace character at any position, and a Command one
\* of whose aliases is empty, begins with '-' or has a whitespace character.
C23_NameAndAliasConstraints ==
    target.kind = "Command" =>
        \A k \in 1..Len(verdicts) :
            (\/ BadName(built.cmds[target.id].Name)
             \/ \E j \in 1..Len(AliasesOf(built, target.id)) :
                   BadName(AliasesOf(built, target.id)[j]))
                => verdicts[k] # NoPanic

\* the commands of the tree t at and below c
RECURSIVE Reach(_, _)
Reach(t, c) ==
    {c} \cup UNION {Reach(t, t.cmds[c].Subcommands[j]) :
                      j \in 1..Len(t.cmds[c].Subcommands)}

\* the names of the own options of c, each with its place: the index of
\* the option in c.Options and the index of the name in its Names
OptionNamePlaces(t, c) ==
    UNION { { <<j, k>> : k \in 1..Len(t.opts[t.cmds[c].Options[j]].Names) } :
              j \in 1..Len(t.cmds[c].Options) }

OptionNameAt(t, c, p) == t.opts[t.cmds[c].Options[p[1]]].Names[p[2]]

\* two of the own options of c share a name, or one has a name twice
DuplicateOptionName(t, c) ==
    \E p, q \in OptionNamePlaces(t, c) :
        p # q /\ OptionNameAt(t, c, p) = OptionNameAt(t, c, q)

\* the names and aliases of the direct subcommands of c, each with its
\* place: the index of the subcommand, and 0 for its name or the index of
\* the alias
SubcommandNamePlaces(t, c) ==
    UNION { { <<j, k>> : k \in 0..Len(AliasesOf(t, t.cmds[c].Subcommands[j])) } :
              j \in 1..Len(t.cmds[c].Subcommands) }

SubcommandNameAt(t, c, p) ==
    IF p[2] = 0 THEN t.cmds[t.cmds[c].Subcommands[p[1]]].Name
    ELSE AliasesOf(t, t.cmds[c].Subcommands[p[1]])[p[2]]

\* a string occurs twice among the names and aliases of the direct
\* subcommands of c
DuplicateSubcommandName(t, c) ==
    \E p, q \in SubcommandNamePlaces(t, c) :
        p # q /\ SubcommandNameAt(t, c, p) = SubcommandNameAt(t, c, q)

\* every Command at and below c has a name and aliases validate lets
\* through (an alias may be empty), valid options, and no name twice among
\* its own options or among its direct subcommands
FreeOfDefects(t, c) ==
    \A d \in Reach(t, c) :
        /\ ~BadName(t.cmds[d].Name)
        /\ \A j \in 1..Len(AliasesOf(t, d)) :
              AliasesOf(t, d)[j] = <<>> \/ ~BadName(AliasesOf(t, d)[j])
        /\ \A j \in 1..Len(t.cmds[d].Options) : ~InvalidOption(t.opts[t.cmds[d].Options[j]])
        /\ ~DuplicateOptionName(t, d)
        /\ ~DuplicateSubcommandName(t, d)

\* two Commands have their Aliases in one array
SharesArray(t) ==
    \E c, d \in DOMAIN t.cmds :
        c # d /\ t.cmds[c].Aliases.arr = t.cmds[d].Aliases.arr

\* C24: uniqueness is checked per Command.  validate rejects a Command two
\* of whose own options share a name (or one of whose options has a name
\* twice), and a Command among whose direct subcommands a string occurs
\* twice as name or alias (an alias equal to the subcommand's own name
\* included); a tree without such a Command and without other defects is
\* accepted although it uses an option name and a subcommand name and alias
\* again in another Command.  (The trees are those whose Aliases slices lie
\* in arrays of their own.)
C24_UniquenessPerCommand ==
    target.kind = "Command" =>
        \A k \in 1..Len(verdicts) :
            /\ (DuplicateOptionName(built, target.id)
                   \/ DuplicateSubcommandName(built, target.id))
                  => verdicts[k] # NoPanic
            /\ (FreeOfDefects(built, target.id) /\ ~SharesArray(built))
                  => verdicts[k] = NoPanic

C24_Witness ==
    /\ target = [kind |-> "Command", id |-> "test"]
    /\ built = SetAliases(SampleTree, "foo", << <<"f", "o", "o">> >>)
    /\ verdicts = << panicCommand("command names must be unique", <<"f", "o", "o">>) >>

\* the tree as its fields show it: names, aliases, option lists and
\* subcommand lists
Visible(t) ==
    [cmds |-> [c \in DOMAIN t.cmds |->
                 [Name |-> t.cmds[c].Name,
                  Aliases |-> AliasesOf(t, c),
                  Options |-> t.cmds[c].Options,
                  Subcommands |-> t.cmds[c].Subcommands]],
     opts |-> t.opts]

\* C26: on a valid tree every validate call succeeds and the calls leave
\* the names, aliases, option lists and subcommand lists as they were; on
\* an invalid tree every call fails with the same error.
C26_ValidateIdempotent ==
    target.kind = "Command" =>
        IF FreeOfDefects(built, target.id)
        THEN /\ Visible(tree) = Visible(built)
             /\ \A k \in 1..Len(verdicts) : verdicts[k] = NoPanic
        ELSE \A k \in 1..Len(verdicts) :
                 verdicts[k] # NoPanic /\ verdicts[k] = verdicts[1]

\* a step that is a call of Decode
DecodeStep == pc \in {"idle", "done"} /\ decodes' = decodes + 1

\* the decoding state a panic of validate leaves as it was
AsBefore ==
    /\ dest' = dest
    /\ defaulted' = defaulted
    /\ calls' = calls
    /\ log' = log
    /\ err' = err
    /\ args' = args
    /\ i' = i
    /\ path' = path
    /\ positional' = positional
    /\ seen' = seen

\* C25: every Decode call validates the whole tree below its command before
\* anything else.  If a Command or an Option anywhere below the command is
\* one validate rejects, Decode panics with validate's complaint, and the
\* destinations, the SetDefault invocations, the decoder invocations and
\* everything parseArgs keeps are as they were before the call; this holds
\* of the first call and of a call made after the tree was written to.  If
\* there is none, validate raises nothing.
C25_ValidateBeforeAnything ==
    [][DecodeStep =>
          IF FreeOfDefects(tree, root')
          THEN panicked' = NoPanic \/ panicked'.msg = DefaultRejected
          ELSE /\ pc' = "panic"
               /\ panicked' # NoPanic
               /\ panicked'.msg # DefaultRejected
               /\ AsBefore]_vars

\* the second Decode call on top with ["-t","1"], made after the decoder of
\* bottom's option was set to nil, panics with Top still 1
C25_Witness ==
    /\ pc = "panic"
    /\ decodes = 2
    /\ root = "top"
    /\ origArgs = <<T_t, T_1>>
    /\ tree = SetDecoder(FixtureTree, "Bottom", NoDecoder)
    /\ panicked = panicOption("Option decoder cannot be nil",
                               <<"-", "b", "/">> \o <<"-", "-">> \o <<"b", "o", "t", "t", "o", "m", "v", "a", "l">>)
    /\ dest.Top = 1
    /\ Len(log) = 1

\* the options at and below the command c whose decoder supports
\* defaulting: the own options of c in declaration order, then those of
\* each subcommand of c, in declaration order
RECURSIVE TreeOrder(_)
TreeOrder(c) ==
    SelectSeq(Commands[c].Options, LAMBDA o : o \in Defaulted)
        \o Concat([k \in 1..Len(Commands[c].Subcommands) |->
                      TreeOrder(Commands[c].Subcommands[k])])

\* C27: in a Decode call that gets as far as parseArgs, SetDefault has been
\* invoked exactly once for every option at or below the command whose
\* decoder supports defaulting, in tree order (a Command's own options in
\* declaration order, then each of its subcommands in turn, parent before
\* children), whatever subcommands the args select; the invocations are all
\* made when the loop over the args begins and none is made later.  (A call
\* in which a default is rejected ends at that SetDefault: C28.)
C27_DefaultsInTreeOrder ==
    /\ pc \in {"scan", "done"} => defaulted = TreeOrder(root)
    /\ (pc \in {"scan", "done"} /\ root = "nested") =>
          defaulted = <<"NestedA", "NestedB", "NestedC", "NestedD", "NestedE">>
    /\ (pc \in {"scan", "done"} /\ root = "defaults") =>
          defaulted = <<"Default", "EnvDefault", "StackedDefault">>
    /\ (pc \in {"scan", "done"} /\ root \in {"top", "mid"}) => defaulted = <<>>
    /\ (pc = "panic" /\ panicked.msg = DefaultRejected) =>
          /\ Len(defaulted) <= Len(TreeOrder(root))
          /\ defaulted = SubSeq(TreeOrder(root), 1, Len(defaulted))

\* Decode on nested with ["one"]: when the loop begins, the defaults of a,
\* b, c, d and e were set in this order, d's on the subcommand leaf that
\* the args do not select
C27_Witness ==
    /\ pc = "scan"
    /\ root = "nested"
    /\ origArgs = <<T_one>>
    /\ log = <<>>
    /\ calls = <<>>
    /\ defaulted = <<"NestedA", "NestedB", "NestedC", "NestedD", "NestedE">>
    /\ dest.NestedD = 4
    /\ dest.NestedE = 5

\* the literal default of opt is one its decoder rejects
RejectedDefault(opt) == opt \in DOMAIN DefaultArgs /\ ~Accepts(opt, DefaultArgs[opt])

\* SetDefault of opt comes to the literal default under the environment e:
\* opt has no env tag, or its variable is unset or holds a rejected value
LiteralApplied(opt, e) ==
    \/ opt \notin DOMAIN EnvKeys
    \/ Getenv(e, EnvKeys[opt]) = <<>>
    \/ ~Accepts(opt, Getenv(e, EnvKeys[opt]))

\* the places in the tree order of c of the options whose rejected literal
\* default is applied under e
RejectedPlaces(c, e) ==
    { k \in 1..Len(TreeOrder(c)) :
         RejectedDefault(TreeOrder(c)[k]) /\ LiteralApplied(TreeOrder(c)[k], e) }

\* C28: a literal default its decoder rejects is fatal.  A Decode call on a
\* valid tree in which SetDefault applies such a default panics with
\* 'error setting default value: decoder rejected arg' and the literal: no
\* token is scanned, no decoder is invoked on an argument, the error value
\* is not written, and the options later in the tree order keep their
\* destinations.  A call in which no such default is applied (none in the
\* tree, or the environment variable of the option holds a value that
\* decodes) does not panic.
C28_RejectedDefaultPanics ==
    [][(DecodeStep /\ FreeOfDefects(tree, root')) =>
          IF RejectedPlaces(root', env') # {}
          THEN LET k == Min(RejectedPlaces(root', env'))
                   order == TreeOrder(root')
               IN  /\ pc' = "panic"
                   /\ panicked' = panicOption(DefaultRejected, DefaultArgs[order[k]])
                   /\ defaulted' = SubSeq(order, 1, k)
                   /\ \A j \in k..Len(order) : dest'[order[j]] = dest[order[j]]
                   /\ err' = err
                   /\ log' = log
                   /\ calls' = calls
                   /\ args' = args
                   /\ i' = i
                   /\ positional' = positional
          ELSE pc' = "scan" /\ panicked' = NoPanic]_vars

\* Decode on rejected with ["-a","2"] while STACKED_DEFAULT holds foo: the
\* default x of s is rejected after the default of a was set; nothing was
\* scanned and no error returned
C28_Witness ==
    /\ pc = "panic"
    /\ root = "rejected"
    /\ origArgs = <<T_a, T_2>>
    /\ env.STACKED_DEFAULT = SetTo(T_foo)
    /\ panicked = panicOption(DefaultRejected, <<"x">>)
    /\ err = NoErr
    /\ log = <<>>
    /\ calls = <<>>
    /\ dest.Accepted = 1
    /\ dest.Unreached = 0

----------------------------------------------------------------------------
(* Sequences of Decode calls *)

\* the name and the aliases of command c
CommandNames(c) == {Commands[c].Name} \cup Range(Commands[c].Aliases)

\* what a Decode call returns and what it leaves in the destinations
Outcome(s) ==
    [path |-> s.path, positional |-> s.positional, err |-> s.err, dest |-> s.dest]

\* the same call made with the argument vector a instead: same command, same
\* environment, the destinations as they were when the call was made
Rerun(a) == parseArgsFrom(CommandDecode(root, a, entry, env))

\* the subcommand the token of iteration k was matched to
MatchedAt(k) == Last(LogPath(k))

\* C31: a subcommand's aliases are interchangeable with its name.  Replacing
\* a token that was matched as a subcommand by the Name or by any alias of
\* that subcommand gives the same Path, the same positional arguments, the
\* same error and the same destinations (mid has the aliases second and 2nd).
C31_AliasesInterchangeable ==
    pc = "done" =>
        \A k \in RoleIndices({"subcommand"}) : \A n \in CommandNames(MatchedAt(k)) :
            /\ log[k].src > 0
            /\ Outcome(Rerun([origArgs EXCEPT ![log[k].src] = n])) = Outcome(Cur)

\* Decode returned for ["second", "third"] with Path [top, mid, bottom]
C31_Witness ==
    /\ pc = "done"
    /\ origArgs = <<T_second, T_third>>
    /\ path = <<"top", "mid", "bottom">>
    /\ positional = <<>>

\* the options the iterations of this call resolved a token to, up to the
\* scan position
MatchedInCall ==
    { log[k].opt : k \in { j \in RoleIndices({"option"}) : log[j].opt # NoOption } }

\* the same arguments given to a program that has made no Decode call yet
FirstRun == parseArgsFrom(CommandDecode(root, origArgs, ZeroDest, env))

\* C32: the seen-set belongs to one Decode call.  In any sequence of calls it
\* starts empty and holds options of the current call only, so an option
\* given once per call never fails with 'specified too many times', and the
\* error a call returns is the one the same arguments give in a first call.
C32_SeenScopedToCall ==
    /\ pc \in {"scan", "done"} => seen \subseteq MatchedInCall
    /\ pc = "scan" /\ log = <<>> => seen = {}
    /\ pc = "done" /\ err.kind = TooManyTimes => SecondOccurrence(Len(log))
    /\ pc = "done" => err = FirstRun.err

\* a second call with ["-t","1"] returned nil after a call that had decoded -t
C32_Witness ==
    /\ pc = "done"
    /\ decodes = 2
    /\ origArgs = <<T_t, T_1>>
    /\ entry.Top = 1
    /\ seen = {"Top"}
    /\ err = NoErr

\* the token at the scan position was inserted by the split of a cluster
AtInsertedTail == Scanning /\ origin[i] = 0

\* C33: when "-<c><tail>" resolves c to a flag, the flag is decoded with the
\* empty string and the inserted token "-<tail>" is processed by the next
\* iteration as a short-option cluster, its first character taken as a
\* short option name, also when the tail begins with '-'.
C33_TailIsShortCluster ==
    AtInsertedTail =>
        /\ calls # <<>> /\ calls[Len(calls)][2] = <<>>
        /\ Options[calls[Len(calls)][1]].Flag
        /\ IsOptionCase(Cur)
        /\ ~HasPrefix(args[i], DashDash)

\* the number of characters of the tokens of a from position k on
RECURSIVE Chars(_, _)
Chars(a, k) == IF k > Len(a) THEN 0 ELSE Len(a[k]) + Chars(a, k + 1)

\* the same with an empty token counted as one
RECURSIVE Weight(_, _)
Weight(a, k) ==
    IF k > Len(a) THEN 0
    ELSE (IF a[k] = <<>> THEN 1 ELSE Len(a[k])) + Weight(a, k + 1)

\* the number of loop iterations never exceeds the number of characters in args
C34_Original == pc \in {"scan", "done"} => Len(log) <= Chars(origArgs, 1)

\* C34: the scan terminates although a split lengthens args.  A split
\* inserts one token, one character shorter than the token it came from;
\* every iteration that does not return shortens what is left to scan,
\* counted in characters with an empty token as one; so the number of
\* iterations is at most the number of characters in args plus the number
\* of empty tokens, and a Decode call that is scanning returns.
C34_ScanTerminates ==
    /\ [](pc \in {"scan", "done"} => Len(log) <= Weight(origArgs, 1))
    /\ [][pc = "scan" /\ pc' = "scan" /\ Len(args') > Len(args) =>
              /\ Len(args') = Len(args) + 1
              /\ origin'[i'] = 0
              /\ Len(args'[i']) = Len(args[i]) - 1]_vars
    /\ [][pc = "scan" /\ pc' = "scan" => Weight(args', i') < Weight(args, i)]_vars
    /\ (pc = "scan" ~> pc = "done")

\* Decode returned for ["", "", "-a"] after three iterations
C34_Witness ==
    /\ pc = "done"
    /\ origArgs = <<T_empty, T_empty, T_a>>
    /\ Len(log) = 3
    /\ Chars(origArgs, 1) = 2

\* SetDefault of option opt writes its destination in environment e: the
\* option has a default tag, or an env tag whose variable holds a
\* non-empty value that its decoder accepts
WritesDefault(opt, e) ==
    \/ opt \in DOMAIN DefaultArgs
    \/ opt \in DOMAIN EnvKeys /\ Getenv(e, EnvKeys[opt]) # <<>>
          /\ Accepts(opt, Getenv(e, EnvKeys[opt]))

\* the value SetDefault gives the destination of opt in a first call
InitialValue(opt) == setDefaults(root, ZeroDest, env).dest[opt]

\* the loop of a Decode call is about to start
AtLoopStart == pc = "scan" /\ log = <<>>

\* C35: destinations persist across Decode calls.  At the start of a call
\* the destination of an option without a defaulter holds what the earlier
\* calls left (an accumulator flag decoded once per call counts 1, 2, 3,
\* ...), while that of an option with a defaulter is initialised again by
\* SetDefault: it holds the value it has at the start of a first call,
\* unless SetDefault has nothing to write (an env tag alone and no usable
\* value in the environment), which leaves it as it was.
C35_DestinationsPersist ==
    /\ AtLoopStart =>
          \A opt \in OptionIds :
              IF opt \in Range(TreeOrder(root)) /\ WritesDefault(opt, env)
              THEN dest[opt] = InitialValue(opt)
              ELSE dest[opt] = entry[opt]
    /\ pc = "done" /\ root = "top" /\ origArgs = <<T_a>> =>
          dest.Accumulator = entry.Accumulator + 1

\* C37: Decode never modifies the caller's argument slice.  Whatever
\* parseArgs removes, inserts or rewrites, the caller's slice holds after
\* the call, and at every point of it, the elements it held when Decode was
\* called: each splice works on a copy made by duplicateArgs, and until the
\* first splice args is the caller's slice, unwritten.
C37_CallerArgsUnmodified ==
    /\ callerArgs = origArgs
    /\ pc \in {"scan", "done"} /\ aliased => args = origArgs
    /\ pc \in {"scan", "done"} /\ args # origArgs => ~aliased

\* Decode returned for ["-at1","mid","-m","2"] after a split and a consumed
\* argument, with args no longer what the caller passed
C37_Witness ==
    /\ pc = "done"
    /\ origArgs = <<T_a_t1, T_mid, T_m, T_2>>
    /\ args = <<T_a, <<"-", "t", "1">>, T_mid, T_m>>
    /\ ~aliased
    /\ err = NoErr

\* the option token carries its argument: "--name=value" or "-nvalue"
HasInline(tok) ==
    IF HasPrefix(tok, DashDash)
    THEN Len(SplitEq(TrimPrefix(tok, DashDash))) = 2
    ELSE Len(tok) > 2

\* iteration k gave the next element of args to a decoder
ConsumedNext(k) ==
    /\ log[k].role = "option"
    /\ log[k].opt # NoOption
    /\ ~Options[log[k].opt].Flag
    /\ ~HasInline(log[k].tok)
    /\ CallsAfter(k) > log[k].ncalls

\* the iterations whose token is an element of the caller's slice
Original(roles) == { k \in RoleIndices(roles) : log[k].src > 0 }

\* C38: token conservation.  positional is a subsequence of the original
\* args (every positional token is an element of the caller's slice, in
\* order, never a token made by a split), and when Decode returns nil
\* len(args) = (len(Path) - 1) + len(positional) + the original option
\* tokens + the arguments they consumed + 1 if an original "--" was scanned
\* as the terminator.
C38_TokenConservation ==
    /\ pc # "idle" => positional = LogPositional(Len(log))
    /\ \A k \in RoleIndices({"positional", "dash"}) :
          /\ log[k].src > 0
          /\ log[k].tok = origArgs[log[k].src]
          /\ \A j \in RoleIndices({"positional", "dash"}) :
                j < k => log[j].src < log[k].src
    /\ pc = "done" /\ err = NoErr =>
          Len(origArgs) =
              (Len(path) - 1) + Len(positional)
                  + Cardinality(Original({"option"}))
                  + Cardinality({ k \in 1..Len(log) : ConsumedNext(k) })
                  + Cardinality(Original({"terminator"}))

\* Decode returned nil for ["-at1","mid","-m","2"]: two original option
\* tokens, one token made by a split, one subcommand, one consumed argument
C38_Witness ==
    /\ pc = "done"
    /\ err = NoErr
    /\ origArgs = <<T_a_t1, T_mid, T_m, T_2>>
    /\ Len(log) = 4
    /\ Cardinality(Original({"option"})) = 2
    /\ ConsumedNext(4)
    /\ path = <<"top", "mid">>

\* the last iteration invoked a decoder
LastInvoked == Len(log) > 0 /\ Len(calls) = log[Len(log)].ncalls + 1

\* the destinations at the start of the call's loop
AtEntry == setDefaults(root, entry, env).dest

\* C39: the repetition check runs after the decoder.  When a non-plural
\* option occurs a second time its decoder is invoked first: if it accepts
\* the argument the destination holds the second value and the error is
\* 'specified too many times'; if it rejects it, that error is returned
\* instead.  After ["--string","a","--string","b"] the destination holds "b".
C39_RepetitionAfterDecoder ==
    /\ pc = "done" /\ err.kind = TooManyTimes =>
          /\ LastInvoked
          /\ calls[Len(calls)][1] = log[Len(log)].opt
          /\ Accepts(calls[Len(calls)][1], calls[Len(calls)][2])
          /\ dest = Replay(calls, AtEntry)
    /\ pc = "done" /\ LastInvoked /\ SecondOccurrence(Len(log))
          /\ ~Accepts(calls[Len(calls)][1], calls[Len(calls)][2]) =>
          err.kind \in OwnErrors
    /\ ReturnedOn("basic", <<T_string, T_sa, T_string, T_sb>>) =>
          err.kind = TooManyTimes /\ dest.String = T_sb
    /\ ReturnedOn("basic", <<T_int8, T_5, T_int8, T_foo>>) =>
          err.kind = "invalid syntax" /\ dest.Int8 = 5

\* Decode returned for ["--string","a","--string","b"] with the decoder
\* invoked twice
C39_Witness ==
    /\ ReturnedOn("basic", <<T_string, T_sa, T_string, T_sb>>)
    /\ calls = << <<"String", T_sa>>, <<"String", T_sb>> >>
    /\ err.kind = TooManyTimes
    /\ dest.String = T_sb

\* the options of the command Decode was called on whose env tag names a
\* variable that is present and empty
EmptyInEnv ==
    { opt \in Range(TreeOrder(root)) \cap DOMAIN EnvKeys : env[EnvKeys[opt]] = EmptyValue }

\* the environment with the variable of opt removed
Unsetenv(opt) == [env EXCEPT ![EnvKeys[opt]] = Unset]

----------------------------------------------------------------------------
(* Decode calls made at the same time *)

\* what top.Decode(a) returns when it is the only call of the program
Alone(a) == parseArgsFrom(CommandDecode("top", a, ZeroDest, EmptyEnv))

\* the destinations after top.Decode(a) and then top.Decode(b)
Serial(a, b) == parseArgsFrom(CommandDecode("top", b, Alone(a).dest, EmptyEnv)).dest

\* the options the iterations of goroutine t's call resolved a token to
ThreadMatched(t) ==
    { threads[t].s.log[k].opt : k \in 1..Len(threads[t].s.log) } \ {NoOption}

\* C36: each Decode call has its own Path, positional list and seen-set:
\* when two calls on the same tree interleave, the Path, the positional
\* arguments and the error of each, a repetition error included, are those
\* its arguments give alone, and its seen-set holds options of its own
\* arguments only.  (The destinations are shared and unsynchronized.)
C36_CallsIndependent ==
    \A t \in Threads :
        /\ threads[t].pc # "idle" => threads[t].s.seen \subseteq ThreadMatched(t)
        /\ threads[t].pc = "done" =>
              /\ threads[t].s.path = Alone(threads[t].orig).path
              /\ threads[t].s.positional = Alone(threads[t].orig).positional
              /\ threads[t].s.err = Alone(threads[t].orig).err

\* both calls returned nil and left Top = 2 and TopX = 1, which neither
\* serial order of the two calls gives
C36_Witness ==
    /\ threads[1].pc = "done" /\ threads[2].pc = "done"
    /\ threads[1].orig = <<T_t, T_1, T_x, T_1>>
    /\ threads[2].orig = <<T_t, T_2, T_x, T_2>>
    /\ threads[1].s.err = NoErr /\ threads[2].s.err = NoErr
    /\ dest.Top = 2 /\ dest.TopX = 1
    /\ dest \notin {Serial(threads[1].orig, threads[2].orig),
                     Serial(threads[2].orig, threads[1].orig)}

====
